---- MODULE Spec2Model ----
(***************************************************************************)
(* Reservation scheduling and table allocation of reservai-demo:           *)
(* ReservationRepository (src/app/database/reservation_repository.py) over *)
(* a single-table key/value store.  Every store operation (get_item,       *)
(* put_item, delete_item) is one atomic step; a repository call is a       *)
(* sequence of such steps and calls of different processes interleave.     *)
(*                                                                         *)
(* Dates are day numbers (day 0 is a Monday, so weekday = date % 7), times *)
(* are minutes after midnight, a slot key "YYYY-MM-DD#HH:MM" is the pair   *)
(* <<date, minutes>>.  The value -1 stands for a string that strptime      *)
(* rejects.                                                                *)
(***************************************************************************)
EXTENDS Integers, Sequences, FiniteSets, TLC

VARIABLES
    tables,        \* TABLE#<id>/META items: table_id -> table record
    reservations,  \* RESERVATION#<id>/DETAILS items: id -> reservation record
    lookups,       \* CUSTOMER#<phone>/RESERVATION#<date>#<time>#<id> items: key -> status
    slots,         \* TABLE#<id>/SLOT#<key> items: <<table_id, key>> -> occupancy record
    now,           \* datetime.now(UTC), in minutes since day 0, 00:00
    issued,        \* the reservation ids generated so far (uuid4 draws are distinct)
    budget,        \* the calls that may still be started
    pc,            \* per process: the step its current call is at ("off": never runs)
    loc,           \* per process: the local variables of its current call
    snap,          \* per process running alone: the store when its call began
    rivals,        \* per process: the calls that overlapped its call (0: one that returned);
                   \* under 0: the ids on which two calls have overlapped
    agents,             \* RestaurantAgentManager.agents: the phones with a cached agent
    turn_counts,        \* RestaurantAgentManager.turn_counts: phone -> turns
    last_seen_at,       \* RestaurantAgentManager.last_seen_at: phone -> instant
    conversation_tags,  \* RestaurantAgentManager.conversation_tags: phone -> tag
    recent_context,     \* RestaurantAgentManager.recent_context: phone -> entries
    tags_issued         \* the conversation tags generated so far

\* The state of the agent manager.
manager ==
    <<agents, turn_counts, last_seen_at, conversation_tags, recent_context, tags_issued>>

vars ==
    <<tables, reservations, lookups, slots, now, issued, budget, pc, loc, snap, rivals,
      manager>>

\* RestaurantAgentManager.__init__
ManagerInit ==
    /\ agents = {}
    /\ turn_counts = << >>
    /\ last_seen_at = << >>
    /\ conversation_tags = << >>
    /\ recent_context = << >>
    /\ tags_issued = 0

----------------------------------------------------------------------------
(* Bounds of the model *)

\* Calls started in one run of concurrent processes.
MaxCalls == 2
\* Calls started in one run of a single process.
MaxSeqCalls == 3
\* Calls started in one long run of a single process.
MaxLongCalls == 4

(* Program constants *)
SLOT_MINUTES == 30
DEFAULT_RESERVATION_DURATION_MINUTES == 90
MinPeople == 1
MaxPeople == 12

DayMinutes == 24 * 60

ACTIVE_STATUSES == {"pending", "confirmed"}
VALID_STATUSES == {"pending", "confirmed", "cancelled"}

Procs == {1, 2}

\* The value of a malformed date or time string.
BadFormat == 0 - 1

\* Day numbers: the Tuesday of the first week, the Monday after it.
DayOf(week, weekday) == 7 * week + weekday
Tue == DayOf(0, 1)
Mon == DayOf(1, 0)

\* Inputs the calls are given.
Dates == {Tue, Mon}
Times == {20 * 60, 20 * 60 + 30, 17 * 60}
People == {5, 7, 13}
Phones == {"600111222", "600333444"}
CreatePhones == {"600111222"}
Preferences == {"", "terraza"}
StatusInputs == {"pending", "confirmed", "cancelled", "bogus"}

\* The instants the clock takes: before every date, and Tuesday 20:15.
Instants == <<0, Tue * DayMinutes + 20 * 60 + 15>>

----------------------------------------------------------------------------
(* DEFAULT_TABLES *)

Table(id, zone, cmin, cmax, prio) ==
    [table_id |-> id, zone |-> zone, capacity_min |-> cmin, capacity_max |-> cmax,
     priority |-> prio, is_active |-> TRUE]

DEFAULT_TABLES ==
    << Table("S1", "salon", 1, 2, 1),   Table("S2", "salon", 1, 2, 2),
       Table("S3", "salon", 2, 4, 1),   Table("S4", "salon", 2, 4, 2),
       Table("S5", "salon", 4, 6, 1),   Table("S6", "salon", 6, 8, 1),
       Table("T1", "terraza", 1, 2, 1), Table("T2", "terraza", 1, 2, 2),
       Table("T3", "terraza", 2, 4, 1), Table("T4", "terraza", 2, 4, 2),
       Table("T5", "terraza", 4, 6, 1) >>

TableIds == {DEFAULT_TABLES[i].table_id : i \in 1..Len(DEFAULT_TABLES)}

\* str comparison of table ids: their place in lexicographic order.
IdRank(id) == CHOOSE i \in 1..Len(DEFAULT_TABLES) : DEFAULT_TABLES[i].table_id = id

\* The catalog after _seed_tables on an empty store.
SeededTables ==
    [id \in TableIds |-> DEFAULT_TABLES[IdRank(id)]]

----------------------------------------------------------------------------
(* Pure helpers of ReservationRepository *)

NormalizeZone(preference) ==
    IF preference = "terraza" THEN "terraza"
    ELSE IF preference \in {"salon", "interior"} THEN "salon"
    ELSE "none"

ReservationDuration(num_people) == DEFAULT_RESERVATION_DURATION_MINUTES

Max(a, b) == IF a >= b THEN a ELSE b

SlotCount(duration) == Max(1, (duration + SLOT_MINUTES - 1) \div SLOT_MINUTES)

\* _slot_keys counting whole slots only (a faulty variant, not used by the
\* model).
SlotKeysRoundingDown(date, time, duration) ==
    [i \in 1..Max(1, duration \div SLOT_MINUTES) |->
        LET at == date * DayMinutes + time + (i - 1) * SLOT_MINUTES
        IN  <<at \div DayMinutes, at % DayMinutes>>]

\* _slot_keys: count keys, 30 minutes apart, from date and time on.
SlotKeys(date, time, duration) ==
    [i \in 1..SlotCount(duration) |->
        LET at == date * DayMinutes + time + (i - 1) * SLOT_MINUTES
        IN  <<at \div DayMinutes, at % DayMinutes>>]

Range(f) == {f[i] : i \in DOMAIN f}

\* _validate_date_time with Sunday open through the 17 hour (a faulty variant,
\* not used by the model).
ValidateDateTimeSundayLate(date, time, clock) ==
    IF date = BadFormat THEN "bad_date"
    ELSE IF time = BadFormat THEN "bad_time"
    ELSE LET hour == time \div 60
             minute == time % 60
             weekday == date % 7
         IN  IF minute \notin {0, 30} THEN "granularity"
             ELSE IF date * DayMinutes + time < clock THEN "past"
             ELSE IF weekday = 0 THEN "closed_monday"
             ELSE IF weekday \in {1, 2, 3} THEN
                 IF \/ (13 <= hour /\ hour < 16) \/ (hour = 16 /\ minute = 0)
                    \/ (20 <= hour /\ hour < 23) \/ (hour = 23 /\ minute <= 30)
                 THEN "ok" ELSE "hours_tue_thu"
             ELSE IF weekday \in {4, 5} THEN
                 IF (13 <= hour /\ hour <= 23) \/ (hour = 0 /\ minute = 0)
                 THEN "ok" ELSE "hours_fri_sat"
             ELSE IF weekday = 6 THEN
                 IF 13 <= hour /\ hour <= 17
                 THEN "ok" ELSE "hours_sun"
             ELSE "ok"

\* _validate_date_time: "ok" or the reason of the rejection.
ValidateDateTime(date, time, clock) ==
    IF date = BadFormat THEN "bad_date"
    ELSE IF time = BadFormat THEN "bad_time"
    ELSE LET hour == time \div 60
             minute == time % 60
             weekday == date % 7
         IN  IF minute \notin {0, 30} THEN "granularity"
             ELSE IF date * DayMinutes + time < clock THEN "past"
             ELSE IF weekday = 0 THEN "closed_monday"
             ELSE IF weekday \in {1, 2, 3} THEN
                 IF \/ (13 <= hour /\ hour < 16) \/ (hour = 16 /\ minute = 0)
                    \/ (20 <= hour /\ hour < 23) \/ (hour = 23 /\ minute <= 30)
                 THEN "ok" ELSE "hours_tue_thu"
             ELSE IF weekday \in {4, 5} THEN
                 IF (13 <= hour /\ hour <= 23) \/ (hour = 0 /\ minute = 0)
                 THEN "ok" ELSE "hours_fri_sat"
             ELSE IF weekday = 6 THEN
                 IF (13 <= hour /\ hour < 17) \/ (hour = 17 /\ minute = 0)
                 THEN "ok" ELSE "hours_sun"
             ELSE "ok"

\* The sort key with the table ids in descending order (a faulty variant, not
\* used by the model).
TableBeforeIdDescending(a, b) ==
    \/ a.capacity_max < b.capacity_max
    \/ a.capacity_max = b.capacity_max /\ a.priority < b.priority
    \/ a.capacity_max = b.capacity_max /\ a.priority = b.priority
       /\ IdRank(a.table_id) > IdRank(b.table_id)

\* The sort key of _active_tables: (capacity_max, priority, table_id).
TableBefore(a, b) ==
    \/ a.capacity_max < b.capacity_max
    \/ a.capacity_max = b.capacity_max /\ a.priority < b.priority
    \/ a.capacity_max = b.capacity_max /\ a.priority = b.priority
       /\ IdRank(a.table_id) < IdRank(b.table_id)

RECURSIVE SortTables(_)
SortTables(set) ==
    IF set = {} THEN << >>
    ELSE LET first == CHOOSE t \in set : \A u \in set \ {t} : TableBefore(t, u)
         IN  <<first>> \o SortTables(set \ {first})

\* _active_tables: the scan of active table items, sorted.
ActiveTables(catalog) ==
    SortTables({catalog[id] : id \in {i \in DOMAIN catalog : catalog[i].is_active}})

\* The candidates filtered by capacity_max alone (a faulty variant, not used by
\* the model).
CandidatesUpperBoundOnly(catalog, num_people, preferences) ==
    LET all == ActiveTables(catalog)
        fits(t) == num_people <= t.capacity_max
        fitting == SelectSeq(all, fits)
        zone == NormalizeZone(preferences)
        inzone(t) == t.zone = zone
        preferred == SelectSeq(fitting, inzone)
        chosen == IF zone # "none" /\ preferred # << >> THEN preferred ELSE fitting
    IN  [i \in 1..Len(chosen) |-> chosen[i].table_id]

\* The candidates of _find_table_for_reservation, as table ids in search order.
Candidates(catalog, num_people, preferences) ==
    LET fits(t) == t.capacity_min <= num_people /\ num_people <= t.capacity_max
        all == SelectSeq(ActiveTables(catalog), fits)
        zone == NormalizeZone(preferences)
        inzone(t) == t.zone = zone
        preferred == SelectSeq(all, inzone)
        chosen == IF zone # "none" /\ preferred # << >> THEN preferred ELSE all
    IN  [i \in 1..Len(chosen) |-> chosen[i].table_id]

----------------------------------------------------------------------------
(* The store: a partial map from keys to items *)

GetItem(store, key) == IF key \in DOMAIN store THEN <<store[key]>> ELSE << >>

PutItem(store, key, item) ==
    [k \in DOMAIN store \cup {key} |-> IF k = key THEN item ELSE store[k]]

DeleteItem(store, key) == [k \in DOMAIN store \ {key} |-> store[k]]

\* condition_expression "attribute_not_exists(PK)"
NotExists(store, key) == key \notin DOMAIN store

\* condition_expression "reservation_id = :rid"
OwnedBy(store, key, rid) == key \in DOMAIN store /\ store[key].reservation_id = rid

----------------------------------------------------------------------------
(* Records *)

NoRes ==
    [date |-> 0, time |-> 0, num_people |-> 0, phone |-> "", preferences |-> "",
     status |-> "none", table_id |-> "", table_zone |-> "", duration_min |-> 0]

\* A field the updates dict does not hold.
NoInt == 0 - 2
NoStr == "<absent>"

NoUpdates ==
    [date |-> NoInt, time |-> NoInt, num_people |-> NoInt,
     phone |-> NoStr, preferences |-> NoStr, status |-> NoStr]

GivenFields(u) ==
    {f \in {"date", "time", "num_people"} : u[f] # NoInt}
        \cup {f \in {"phone", "preferences", "status"} : u[f] # NoStr}

\* The local variables of a call, as they are before it starts.
IdleLoc ==
    [op |-> "none", rid |-> 0, updates |-> NoUpdates, current |-> NoRes,
     merged |-> NoRes, cands |-> << >>, ci |-> 0, table |-> "", keys |-> << >>,
     ki |-> 0, created |-> << >>, release |-> << >>, ri |-> 0,
     at |-> 0, out |-> << >>, result |-> "none", reason |-> ""]

NoSnap == [reservations |-> << >>, lookups |-> << >>, slots |-> << >>]

Store == [reservations |-> reservations, lookups |-> lookups, slots |-> slots]

\* _customer_key
CustomerKey(phone, date, time, rid) == <<phone, date, time, rid>>

\* The occupancy item _save_occupancy writes.
SlotItem(rid, r) == [reservation_id |-> rid, status |-> r.status]

\* _slot_occupied asking for the slot key on any table (a faulty variant, not
\* used by the model).
SlotOccupiedOnAnyTable(store, table_id, slot_key, rid) ==
    \E key \in DOMAIN store :
        /\ key[2] = slot_key
        /\ ~(rid # 0 /\ store[key].reservation_id = rid)
        /\ store[key].status \in ACTIVE_STATUSES

\* _slot_occupied
SlotOccupied(store, table_id, slot_key, rid) ==
    LET key == <<table_id, slot_key>>
    IN  IF key \notin DOMAIN store THEN FALSE
        ELSE IF rid # 0 /\ store[key].reservation_id = rid THEN FALSE
        ELSE store[key].status \in ACTIVE_STATUSES

\* The whole of _find_table_for_reservation on one state of the store:
\* the first candidate all of whose keys are free, or "" when there is none.
RECURSIVE FirstFree(_, _, _, _)
FirstFree(store, cands, keys, rid) ==
    IF cands = << >> THEN ""
    ELSE IF \A i \in DOMAIN keys : ~SlotOccupied(store, Head(cands), keys[i], rid)
         THEN Head(cands)
         ELSE FirstFree(store, Tail(cands), keys, rid)

FindTable(catalog, store, date, time, num_people, preferences, duration, rid) ==
    FirstFree(store, Candidates(catalog, num_people, preferences),
              SlotKeys(date, time, duration), rid)

----------------------------------------------------------------------------
(* Initial state: an empty store after ReservationRepository.__init__ *)

Init ==
    /\ tables = SeededTables
    /\ reservations = << >>
    /\ lookups = << >>
    /\ slots = << >>
    /\ now = Instants[1]
    /\ issued = 0
    /\ budget = MaxCalls
    /\ pc = [p \in Procs |-> "idle"]
    /\ loc = [p \in Procs |-> IdleLoc]
    /\ snap = [p \in Procs |-> NoSnap]
    /\ rivals = [p \in Procs \cup {0} |-> {}]
    /\ ManagerInit

\* One process runs alone and starts calls calls, one after the other.
InitAlone(calls) ==
    /\ tables = SeededTables
    /\ reservations = << >>
    /\ lookups = << >>
    /\ slots = << >>
    /\ now = Instants[1]
    /\ issued = 0
    /\ budget = calls
    /\ pc = [p \in Procs |-> IF p = 1 THEN "idle" ELSE "off"]
    /\ loc = [p \in Procs |-> IdleLoc]
    /\ snap = [p \in Procs |-> NoSnap]
    /\ rivals = [p \in Procs \cup {0} |-> {}]
    /\ ManagerInit

StoreUnchanged == UNCHANGED <<tables, reservations, lookups, slots>>

Alone(p) == \A q \in Procs \ {p} : pc[q] = "off"

InFlight == {q \in Procs : pc[q] \notin {"idle", "off", "done"}}

InitSeq == InitAlone(MaxSeqCalls)

InitLong == InitAlone(MaxLongCalls)

\* The entry of a call releasing the slot items of the id before anything is
\* validated (a faulty variant, not used by the model).
StartCallReleasing(p, rid) ==
    /\ pc[p] = "idle"
    /\ budget > 0
    /\ budget' = budget - 1
    /\ snap' = [snap EXCEPT ![p] = IF \A q \in Procs \ {p} : pc[q] = "off"
                                   THEN [reservations |-> reservations,
                                         lookups |-> lookups, slots |-> slots]
                                   ELSE [reservations |-> << >>, lookups |-> << >>,
                                         slots |-> << >>]]
    /\ rivals' = [q \in DOMAIN rivals |->
                    LET busy == {r \in Procs : pc[r] \notin {"idle", "off", "done"}}
                    IN  IF q = 0
                        THEN IF \E r \in busy \ {p} : loc[r].rid = rid
                             THEN rivals[0] \cup {rid} ELSE rivals[0]
                        ELSE IF q = p THEN {<<r, loc[r].rid = rid>> : r \in busy \ {p}}
                        ELSE IF q \in busy
                             THEN rivals[q] \cup {<<p, loc[q].rid = rid>>}
                             ELSE rivals[q]]
    /\ slots' = [key \in {k \in DOMAIN slots : slots[k].reservation_id # rid} |->
                    slots[key]]
    /\ UNCHANGED <<manager, tables, reservations, lookups, now>>

\* A call of p on the reservation id rid starts. rivals pairs each call with the
\* calls it overlaps in time, and with whether they are on the same id; under 0
\* it keeps the ids on which two calls have ever overlapped.
StartCall(p, rid) ==
    /\ pc[p] = "idle"
    /\ budget > 0
    /\ budget' = budget - 1
    /\ snap' = [snap EXCEPT ![p] = IF Alone(p) THEN Store ELSE NoSnap]
    /\ rivals' = [q \in DOMAIN rivals |->
                    IF q = 0
                    THEN IF \E r \in InFlight \ {p} : loc[r].rid = rid
                         THEN rivals[0] \cup {rid} ELSE rivals[0]
                    ELSE IF q = p THEN {<<r, loc[r].rid = rid>> : r \in InFlight \ {p}}
                    ELSE IF q \in InFlight
                         THEN rivals[q] \cup {<<p, loc[q].rid = rid>>}
                         ELSE rivals[q]]
    /\ StoreUnchanged
    /\ UNCHANGED manager
    /\ UNCHANGED now

\* The call of p ends with this result.
Finish(p, l, result, reason) ==
    /\ pc' = [pc EXCEPT ![p] = "done"]
    /\ loc' = [loc EXCEPT ![p] = [l EXCEPT !.result = result, !.reason = reason]]

Goto(p, l, step) ==
    /\ pc' = [pc EXCEPT ![p] = step]
    /\ loc' = [loc EXCEPT ![p] = l]

\* The search begins: the candidates are scanned, the first slot is read next.
BeginFind(p, l) ==
    LET cands == Candidates(tables, l.merged.num_people, l.merged.preferences)
        keys == SlotKeys(l.merged.date, l.merged.time, l.merged.duration_min)
        l2 == [l EXCEPT !.cands = cands, !.keys = keys, !.ci = 1, !.ki = 1]
    IN  IF cands = << >>
        THEN Finish(p, [l2 EXCEPT !.ci = 0, !.ki = 0], "no_availability", "")
        ELSE Goto(p, l2, "find")

\* create_reservation, up to the scan of _find_table_for_reservation.
CreateStart(p, date, time, num_people, phone, preferences) ==
    /\ StartCall(p, issued + 1)
    /\ LET valid == ValidateDateTime(date, time, now)
           reservation ==
               [date |-> date, time |-> time, num_people |-> num_people,
                phone |-> phone, preferences |-> preferences, status |-> "pending",
                table_id |-> "", table_zone |-> "",
                duration_min |-> ReservationDuration(num_people)]
           l == [IdleLoc EXCEPT !.op = "create", !.at = now, !.merged = reservation]
           l1 == [l EXCEPT !.rid = issued + 1]
       IN  IF valid # "ok"
               THEN Finish(p, l, "validation", valid) /\ UNCHANGED issued
           ELSE IF num_people < MinPeople \/ num_people > MaxPeople
               THEN Finish(p, l, "validation", "num_people") /\ UNCHANGED issued
           ELSE BeginFind(p, l1) /\ issued' = issued + 1

\* One _slot_occupied read of the search loop of _find_table_for_reservation.
FindStep(p) ==
    /\ pc[p] = "find"
    /\ LET l == loc[p]
           t == l.cands[l.ci]
       IN  IF SlotOccupied(slots, t, l.keys[l.ki], l.rid)
           THEN IF l.ci < Len(l.cands)
                THEN Goto(p, [l EXCEPT !.ci = l.ci + 1, !.ki = 1], "find")
                ELSE Finish(p, [l EXCEPT !.ci = 0, !.ki = 0], "no_availability", "")
           ELSE IF l.ki < Len(l.keys)
                THEN Goto(p, [l EXCEPT !.ki = l.ki + 1], "find")
                ELSE Goto(p, [l EXCEPT !.ci = 0, !.ki = 1, !.table = t,
                                       !.merged.table_id = t,
                                       !.merged.table_zone = tables[t].zone],
                          IF l.op = "create" THEN "put_reservation" ELSE "occupy")
    /\ StoreUnchanged
    /\ UNCHANGED manager
    /\ UNCHANGED <<now, issued, budget, snap, rivals>>

\* create_reservation: the insert-only put of the reservation item.
CreatePutReservation(p) ==
    /\ pc[p] = "put_reservation"
    /\ LET l == loc[p]
       IN  IF NotExists(reservations, l.rid)
           THEN /\ reservations' = PutItem(reservations, l.rid, l.merged)
                /\ Goto(p, l, "put_lookup")
           ELSE /\ UNCHANGED reservations
                /\ Finish(p, l, "id_exists", "")
    /\ UNCHANGED <<manager, tables, lookups, slots, now, issued, budget, snap, rivals>>

\* create_reservation: _save_customer_lookup.
CreatePutLookup(p) ==
    /\ pc[p] = "put_lookup"
    /\ LET l == loc[p]
           r == l.merged
       IN  /\ lookups' = PutItem(lookups, CustomerKey(r.phone, r.date, r.time, l.rid),
                                 r.status)
           /\ Goto(p, l, "occupy")
    /\ UNCHANGED <<manager, tables, reservations, slots, now, issued, budget, snap, rivals>>

\* create_reservation searching again after a failed slot put (a faulty
\* variant, not used by the model).
AfterOccupancyFailedRetrying(p, l) ==
    IF l.op = "create" THEN Goto(p, [l EXCEPT !.ci = 1, !.ki = 1], "find")
    ELSE Finish(p, l, "conflict", "")

\* Where a call goes when _save_occupancy has returned False.
AfterOccupancyFailed(p, l) ==
    IF l.op = "create" THEN Goto(p, l, "undo_reservation")
    ELSE Finish(p, l, "conflict", "")

\* The release limited to a target that is not active (a faulty variant, not
\* used by the model).
ReleaseKeysOnCancelOnly(current, merged, new_slot_keys) ==
    IF /\ current.status \in ACTIVE_STATUSES /\ current.table_id # ""
       /\ merged.status \notin ACTIVE_STATUSES
    THEN SlotKeys(current.date, current.time, current.duration_min)
    ELSE << >>

\* update_reservation: the slot keys handed to _release_occupancy.
ReleaseKeys(current, merged, new_slot_keys) ==
    LET old_slots == SlotKeys(current.date, current.time, current.duration_min)
        keep == IF current.table_id = merged.table_id THEN Range(new_slot_keys) ELSE {}
        notkept(k) == k \notin keep
    IN  IF current.status \in ACTIVE_STATUSES /\ current.table_id # ""
        THEN IF merged.status \in ACTIVE_STATUSES
             THEN SelectSeq(old_slots, notkept)
             ELSE old_slots
        ELSE << >>

\* update_reservation once the new slots are held: on to _release_occupancy.
EnterRelease(p, l) ==
    LET release == ReleaseKeys(l.current, l.merged, l.keys)
    IN  IF release = << >>
        THEN Goto(p, l, "put_merged")
        ELSE Goto(p, [l EXCEPT !.release = release, !.ri = 1], "release")

\* Where a call goes when _save_occupancy has returned True.
AfterOccupancySaved(p, l) ==
    IF l.op = "create" THEN Finish(p, l, "ok", "")
    ELSE EnterRelease(p, l)

(* Faulty variants of the write steps, used to test what the properties below
   depend on. None of them is part of Next. *)

\* _save_occupancy with the put of a slot item made unconditional.
SaveOccupancyUnconditional(p) ==
    /\ pc[p] = "occupy"
    /\ LET l == loc[p]
           key == <<l.merged.table_id, l.keys[l.ki]>>
           l2 == [l EXCEPT !.created = Append(l.created, key)]
       IN  /\ slots' = PutItem(slots, key, SlotItem(l.rid, l.merged))
           /\ IF l.ki < Len(l.keys)
              THEN Goto(p, [l2 EXCEPT !.ki = l.ki + 1], "occupy")
              ELSE AfterOccupancySaved(p, [l2 EXCEPT !.ki = 0])
    /\ UNCHANGED <<manager, tables, reservations, lookups, now, issued, budget, snap, rivals>>

\* _save_occupancy with the delete of the created slot items left out.
UndoSlotSkipped(p) ==
    /\ pc[p] = "undo_slots"
    /\ AfterOccupancyFailed(p, [loc[p] EXCEPT !.ri = 0])
    /\ UNCHANGED <<manager, tables, reservations, lookups, slots, now, issued, budget, snap, rivals>>

\* create_reservation with _delete_customer_lookup left out after a conflict.
CreateUndoLookupSkipped(p) ==
    /\ pc[p] = "undo_lookup"
    /\ Finish(p, loc[p], "conflict", "")
    /\ UNCHANGED <<manager, tables, reservations, lookups, slots, now, issued, budget, snap, rivals>>

\* _save_occupancy: one insert-only put of a slot item.
SaveOccupancyStep(p) ==
    /\ pc[p] = "occupy"
    /\ LET l == loc[p]
           key == <<l.merged.table_id, l.keys[l.ki]>>
       IN  IF NotExists(slots, key)
           THEN /\ slots' = PutItem(slots, key, SlotItem(l.rid, l.merged))
                /\ LET l2 == [l EXCEPT !.created = Append(l.created, key)]
                   IN  IF l.ki < Len(l.keys)
                       THEN Goto(p, [l2 EXCEPT !.ki = l.ki + 1], "occupy")
                       ELSE AfterOccupancySaved(p, [l2 EXCEPT !.ki = 0])
           ELSE /\ UNCHANGED slots
                /\ IF l.created = << >>
                   THEN AfterOccupancyFailed(p, [l EXCEPT !.ki = 0])
                   ELSE Goto(p, [l EXCEPT !.ki = 0, !.ri = 1], "undo_slots")
    /\ UNCHANGED <<manager, tables, reservations, lookups, now, issued, budget, snap, rivals>>

\* _save_occupancy putting the slot items again after it undid its puts (a
\* faulty variant, not used by the model).
UndoSlotStepRetrying(p) ==
    /\ pc[p] = "undo_slots"
    /\ LET l == loc[p]
       IN  /\ slots' = DeleteItem(slots, l.created[l.ri])
           /\ IF l.ri < Len(l.created)
              THEN Goto(p, [l EXCEPT !.ri = l.ri + 1], "undo_slots")
              ELSE Goto(p, [l EXCEPT !.ri = 0, !.ki = 1, !.created = << >>], "occupy")
    /\ UNCHANGED <<manager, tables, reservations, lookups, now, issued, budget, snap, rivals>>

\* _save_occupancy: one delete of a slot item this call created.
UndoSlotStep(p) ==
    /\ pc[p] = "undo_slots"
    /\ LET l == loc[p]
       IN  /\ slots' = DeleteItem(slots, l.created[l.ri])
           /\ IF l.ri < Len(l.created)
              THEN Goto(p, [l EXCEPT !.ri = l.ri + 1], "undo_slots")
              ELSE AfterOccupancyFailed(p, [l EXCEPT !.ri = 0])
    /\ UNCHANGED <<manager, tables, reservations, lookups, now, issued, budget, snap, rivals>>

\* create_reservation: the delete of the reservation item after a conflict.
CreateUndoReservation(p) ==
    /\ pc[p] = "undo_reservation"
    /\ reservations' = DeleteItem(reservations, loc[p].rid)
    /\ Goto(p, loc[p], "undo_lookup")
    /\ UNCHANGED <<manager, tables, lookups, slots, now, issued, budget, snap, rivals>>

\* create_reservation: _delete_customer_lookup after a conflict.
CreateUndoLookup(p) ==
    /\ pc[p] = "undo_lookup"
    /\ LET l == loc[p]
           r == l.merged
       IN  /\ lookups' = DeleteItem(lookups, CustomerKey(r.phone, r.date, r.time, l.rid))
           /\ Finish(p, l, "conflict", "")
    /\ UNCHANGED <<manager, tables, reservations, slots, now, issued, budget, snap, rivals>>

----------------------------------------------------------------------------
(* update_reservation and cancel_reservation *)

\* merged = {**current, **updates}
Merge(current, u) ==
    [current EXCEPT
        !.date = IF u.date # NoInt THEN u.date ELSE @,
        !.time = IF u.time # NoInt THEN u.time ELSE @,
        !.num_people = IF u.num_people # NoInt THEN u.num_people ELSE @,
        !.phone = IF u.phone # NoStr THEN u.phone ELSE @,
        !.preferences = IF u.preferences # NoStr THEN u.preferences ELSE @,
        !.status = IF u.status # NoStr THEN u.status ELSE @]

\* reallocate without the comparison of status (a faulty variant, not used by
\* the model).
ReallocateIgnoringStatus(current, merged) ==
    \/ current.date # merged.date
    \/ current.time # merged.time
    \/ current.num_people # merged.num_people
    \/ current.preferences # merged.preferences

\* reallocate: one of date, time, num_people, preferences, status differs.
Reallocate(current, merged) ==
    \/ current.date # merged.date
    \/ current.time # merged.time
    \/ current.num_people # merged.num_people
    \/ current.preferences # merged.preferences
    \/ current.status # merged.status

\* The ids a caller passes: the ones generated so far, and one that never is.
NoSuchId == 0 - 3
Ids == (1..MaxLongCalls) \cup {NoSuchId}
KnownIds == (1..issued) \cup {NoSuchId}

\* The validator run on every update (a faulty variant, not used by the model).
ValidatesAlways(current, merged) == TRUE

\* The validator run for an active target only (a faulty variant, not used by
\* the model).
ValidatesActiveOnly(current, merged) == merged.status \in ACTIVE_STATUSES

\* update_reservation: target_active or date_or_time_changed.
NeedsValidation(current, merged) ==
    \/ merged.status \in ACTIVE_STATUSES
    \/ current.date # merged.date
    \/ current.time # merged.time

\* update_reservation, up to the scan of _find_table_for_reservation or, when
\* no table is searched, up to the first write.
UpdateBegin(p, rid, u, op) ==
    /\ StartCall(p, rid)
    /\ rid \in KnownIds
    /\ UNCHANGED issued
    /\ LET l == [IdleLoc EXCEPT !.op = op, !.rid = rid, !.updates = u, !.at = now]
       IN  IF rid \notin DOMAIN reservations
           THEN Finish(p, l, "not_found", "")
           ELSE
           LET current == reservations[rid]
               merged == Merge(current, u)
               l1 == [l EXCEPT !.current = current, !.merged = merged]
               target_active == merged.status \in ACTIVE_STATUSES
               valid == IF NeedsValidation(current, merged)
                        THEN ValidateDateTime(merged.date, merged.time, now)
                        ELSE "ok"
           IN  IF merged.status \notin VALID_STATUSES
                   THEN Finish(p, l1, "validation", "status")
               ELSE IF merged.num_people < MinPeople \/ merged.num_people > MaxPeople
                   THEN Finish(p, l1, "validation", "num_people")
               ELSE IF valid # "ok"
                   THEN Finish(p, l1, "validation", valid)
               ELSE IF target_active /\ Reallocate(current, merged)
                   THEN BeginFind(p, l1)
               ELSE EnterRelease(p, l1)

UpdateStart(p, rid, u) == UpdateBegin(p, rid, u, "update")

\* cancel_reservation
CancelStart(p, rid) ==
    UpdateBegin(p, rid, [NoUpdates EXCEPT !.status = "cancelled"], "cancel")

\* _release_occupancy: one delete of a slot item, if this reservation owns it.
ReleaseStep(p) ==
    /\ pc[p] = "release"
    /\ LET l == loc[p]
           key == <<l.current.table_id, l.release[l.ri]>>
       IN  /\ slots' = IF OwnedBy(slots, key, l.rid) THEN DeleteItem(slots, key)
                       ELSE slots
           /\ IF l.ri < Len(l.release)
              THEN Goto(p, [l EXCEPT !.ri = l.ri + 1], "release")
              ELSE Goto(p, [l EXCEPT !.ri = 0], "put_merged")
    /\ UNCHANGED <<manager, tables, reservations, lookups, now, issued, budget, snap, rivals>>

\* update_reservation deleting the item of a reservation it cancels (a faulty
\* variant, not used by the model).
UpdateDeletesCancelled(p) ==
    /\ pc[p] = "put_merged"
    /\ LET l == loc[p]
           c == l.current
           m == l.merged
       IN  /\ reservations' = IF m.status = "cancelled"
                               THEN DeleteItem(reservations, l.rid)
                               ELSE PutItem(reservations, l.rid, m)
           /\ IF CustomerKey(c.phone, c.date, c.time, l.rid)
                   # CustomerKey(m.phone, m.date, m.time, l.rid)
              THEN Goto(p, l, "move_lookup")
              ELSE Goto(p, l, "save_lookup")
    /\ UNCHANGED <<manager, tables, lookups, slots, now, issued, budget, snap, rivals>>

\* update_reservation: the put of the merged reservation item.
UpdatePutReservation(p) ==
    /\ pc[p] = "put_merged"
    /\ LET l == loc[p]
           c == l.current
           m == l.merged
       IN  /\ reservations' = PutItem(reservations, l.rid, m)
           /\ IF CustomerKey(c.phone, c.date, c.time, l.rid)
                   # CustomerKey(m.phone, m.date, m.time, l.rid)
              THEN Goto(p, l, "move_lookup")
              ELSE Goto(p, l, "save_lookup")
    /\ UNCHANGED <<manager, tables, lookups, slots, now, issued, budget, snap, rivals>>

\* update_reservation with the delete of the old customer lookup left out (a
\* faulty variant, not used by the model).
UpdateDeleteLookupSkipped(p) ==
    /\ pc[p] = "move_lookup"
    /\ Goto(p, loc[p], "save_lookup")
    /\ UNCHANGED <<manager, tables, reservations, lookups, slots, now, issued, budget, snap, rivals>>

\* update_reservation: the delete of the customer lookup under its old key.
UpdateDeleteLookup(p) ==
    /\ pc[p] = "move_lookup"
    /\ LET c == loc[p].current
       IN  lookups' = DeleteItem(lookups, CustomerKey(c.phone, c.date, c.time, loc[p].rid))
    /\ Goto(p, loc[p], "save_lookup")
    /\ UNCHANGED <<manager, tables, reservations, slots, now, issued, budget, snap, rivals>>

\* update_reservation: _save_customer_lookup(merged).
UpdatePutLookup(p) ==
    /\ pc[p] = "save_lookup"
    /\ LET l == loc[p]
           m == l.merged
       IN  /\ lookups' = PutItem(lookups, CustomerKey(m.phone, m.date, m.time, l.rid),
                                 m.status)
           /\ Finish(p, l, "ok", "")
    /\ UNCHANGED <<manager, tables, reservations, slots, now, issued, budget, snap, rivals>>

\* The caller takes the result; the process may start its next call.
Return(p) ==
    /\ pc[p] = "done"
    /\ pc' = [pc EXCEPT ![p] = "idle"]
    /\ loc' = [loc EXCEPT ![p] = IdleLoc]
    /\ snap' = [snap EXCEPT ![p] = NoSnap]
    /\ rivals' = [q \in DOMAIN rivals |->
                    IF q = 0 THEN rivals[0]
                    ELSE IF q = p THEN {}
                    ELSE {IF x[1] = p THEN <<0, x[2]>> ELSE x : x \in rivals[q]}]
    /\ StoreUnchanged
    /\ UNCHANGED manager
    /\ UNCHANGED <<now, issued, budget>>

\* Time passes.
Tick ==
    /\ now = Instants[1]
    /\ now' = Instants[2]
    /\ StoreUnchanged
    /\ UNCHANGED manager
    /\ UNCHANGED <<issued, budget, pc, loc, snap, rivals>>

----------------------------------------------------------------------------
(* Inputs *)

\* Fields one update_reservation call is given at most.
MaxFields == 1

UpdateInputs ==
    {u \in [date : Dates \cup {NoInt}, time : Times \cup {NoInt},
            num_people : People \cup {NoInt}, phone : Phones \cup {NoStr},
            preferences : Preferences \cup {NoStr},
            status : StatusInputs \cup {NoStr}] :
        Cardinality(GivenFields(u)) <= MaxFields}

\* The steps a call takes whether or not another call runs beside it.
SoloStep(p) ==
    \/ \E d \in Dates, t \in Times, n \in People, ph \in CreatePhones,
          pr \in Preferences :
            CreateStart(p, d, t, n, ph, pr)
    \/ \E rid \in Ids, u \in UpdateInputs : UpdateStart(p, rid, u)
    \/ \E rid \in Ids : CancelStart(p, rid)
    \/ FindStep(p)
    \/ CreatePutReservation(p)
    \/ CreatePutLookup(p)
    \/ SaveOccupancyStep(p)
    \/ UndoSlotStep(p)
    \/ ReleaseStep(p)
    \/ UpdatePutReservation(p)
    \/ UpdateDeleteLookup(p)
    \/ UpdatePutLookup(p)
    \/ Return(p)

\* The compensating deletes of create_reservation: a create loses a slot only
\* to a call that runs beside it (NoSoloCreateConflict below).
CallStep(p) ==
    \/ SoloStep(p)
    \/ CreateUndoReservation(p)
    \/ CreateUndoLookup(p)

Next == (\E p \in Procs : CallStep(p)) \/ Tick

\* Two callers, MaxCalls calls between them.
Spec == Init /\ [][Next]_vars

SoloNext == (\E p \in Procs : SoloStep(p)) \/ Tick

\* One caller, one call after the other.
SeqSpec == InitSeq /\ [][SoloNext]_vars

LongSpec == InitLong /\ [][SoloNext]_vars

\* With one caller no create_reservation reaches its compensating deletes.
NoSoloCreateConflict ==
    \A p \in Procs : pc[p] \notin {"undo_reservation", "undo_lookup"}

----------------------------------------------------------------------------
(* A store whose writes can fail *)

WriteSteps ==
    {"put_reservation", "put_lookup", "occupy", "undo_slots", "undo_reservation",
     "undo_lookup", "release", "put_merged", "move_lookup", "save_lookup"}

\* The put or delete the call of p is about to make raises the storage error:
\* nothing is written, and the call, which catches nothing, ends there.
StoreError(p) ==
    /\ pc[p] \in WriteSteps
    /\ Finish(p, loc[p], "storage_error", "")
    /\ StoreUnchanged
    /\ UNCHANGED manager
    /\ UNCHANGED <<now, issued, budget, snap, rivals>>

InitFault == InitAlone(MaxCalls)

FaultNext == SoloNext \/ (\E p \in Procs : StoreError(p))

\* One caller, MaxCalls calls, any write of which may fail.
FaultSpec == InitFault /\ [][FaultNext]_vars

----------------------------------------------------------------------------
(* What the claims speak of *)

Active(r) == r.status \in ACTIVE_STATUSES

\* No call is in progress.
Quiescent == InFlight = {}

\* The slot keys of a stored reservation record.
Span(r) == Range(SlotKeys(r.date, r.time, r.duration_min))

\* The slot items a reservation id owns.
OwnedSlots(store, rid) == {k \in DOMAIN store : store[k].reservation_id = rid}

\* The customer lookup keys of a reservation id.
LookupsOf(store, rid) == {k \in DOMAIN store : k[4] = rid}

\* The callers whose calls overlapped the call of p in time.
Overlapped(p) == {x[1] : x \in rivals[p]}

\* A call on the same reservation id overlapped the call of p in time.
SharedId(p) == \E x \in rivals[p] : x[2]

HoldsSpan(rid, r) ==
    \A key \in Span(r) : OwnedBy(slots, <<r.table_id, key>>, rid)

----------------------------------------------------------------------------
\* C1: when no call is in progress, no two distinct reservations with status
\* pending or confirmed have the same table_id and a common slot key.
C1_NoDoubleBooking ==
    Quiescent =>
        \A a, b \in DOMAIN reservations :
            ( /\ a # b
              /\ Active(reservations[a]) /\ Active(reservations[b])
              /\ reservations[a].table_id = reservations[b].table_id )
            => Span(reservations[a]) \cap Span(reservations[b]) = {}

\* C3: when no call is in progress, a pending or confirmed reservation owns the
\* slot item of every key of its span on its table, and a cancelled one owns none.
C3_ActiveHoldsSlots ==
    Quiescent =>
        \A id \in DOMAIN reservations :
            /\ Active(reservations[id]) => HoldsSpan(id, reservations[id])
            /\ reservations[id].status = "cancelled" => OwnedSlots(slots, id) = {}

----------------------------------------------------------------------------
(* Two create_reservation calls in a race *)

\* The call of p is a finished create_reservation that selected a table.
CreateDone(p) == pc[p] = "done" /\ loc[p].op = "create" /\ loc[p].table # ""

\* The calls of p and q ran concurrently and selected the same table with a
\* common slot key; no call on the id of either ran beside them.
CreateRace(p, q) ==
    /\ p # q
    /\ CreateDone(p) /\ CreateDone(q)
    /\ q \in Overlapped(p)
    /\ ~SharedId(p) /\ ~SharedId(q)
    /\ loc[p].table = loc[q].table
    /\ Range(loc[p].keys) \cap Range(loc[q].keys) # {}

\* The create_reservation call of p committed: its three kinds of items remain.
Committed(p) ==
    LET l == loc[p]
        r == l.merged
    IN  /\ l.result = "ok"
        /\ l.rid \in DOMAIN reservations /\ reservations[l.rid] = r
        /\ CustomerKey(r.phone, r.date, r.time, l.rid) \in DOMAIN lookups
        /\ \A i \in DOMAIN l.keys : OwnedBy(slots, <<l.table, l.keys[i]>>, l.rid)

\* Nothing the create_reservation call of p wrote remains.
NothingLeft(p) ==
    /\ loc[p].rid \notin DOMAIN reservations
    /\ LookupsOf(lookups, loc[p].rid) = {}
    /\ OwnedSlots(slots, loc[p].rid) = {}

\* C2: of two concurrent create_reservation calls that selected the same table
\* with a common slot key, exactly one commits; the other returns the conflict
\* error and none of its items remains.
C2_ExactlyOneCommits ==
    \A p, q \in Procs :
        CreateRace(p, q) =>
            \/ Committed(p) /\ loc[q].result = "conflict" /\ NothingLeft(q)
            \/ Committed(q) /\ loc[p].result = "conflict" /\ NothingLeft(p)

\* C2 witness: a race whose loser had acquired a slot before it lost.
C2_Witness ==
    \E p, q \in Procs :
        CreateRace(p, q) /\ loc[q].result = "conflict" /\ loc[q].created # << >>

----------------------------------------------------------------------------
(* One caller: the store before a call against the store after it *)

\* The call of p has returned; it was this operation on an existing reservation.
Returned(p, op) ==
    pc[p] = "done" /\ loc[p].op = op /\ loc[p].current # NoRes

\* A create_reservation for the date, time and party size of r succeeds on the
\* present store.
CreateWouldSucceed(r) ==
    FindTable(tables, slots, r.date, r.time, r.num_people, r.preferences,
              ReservationDuration(r.num_people), 0) # ""

\* The table is one the search can give such a create_reservation: it is among
\* the candidates and every slot key of the span is free on it.
CanBeAssigned(r, table_id) ==
    LET cands == Candidates(tables, r.num_people, r.preferences)
        keys == SlotKeys(r.date, r.time, ReservationDuration(r.num_people))
    IN  /\ \E i \in DOMAIN cands : cands[i] = table_id
        /\ \A i \in DOMAIN keys : ~SlotOccupied(slots, table_id, keys[i], 0)

\* C4: after cancel_reservation returns success for an active reservation, none
\* of the slot keys the reservation held before the call has a slot item, and a
\* create_reservation that follows at once for the same date, time and party
\* size (still accepted by the calendar) succeeds and can be given the table
\* the reservation had.
C4_ReleaseOnCancel ==
    \A p \in Procs :
        ( /\ Returned(p, "cancel") /\ loc[p].result = "ok"
          /\ Active(loc[p].current)
          /\ ValidateDateTime(loc[p].current.date, loc[p].current.time, now) = "ok" )
        => /\ OwnedSlots(snap[p].slots, loc[p].rid) \cap DOMAIN slots = {}
           /\ CreateWouldSucceed(loc[p].current)
           /\ CanBeAssigned(loc[p].current, loc[p].current.table_id)

\* C5: an update_reservation whose given fields all equal the current values
\* leaves table_id and table_zone of the reservation and every slot item as
\* they were.
C5_NoOpUpdate ==
    \A p \in Procs :
        (Returned(p, "update") /\ loc[p].merged = loc[p].current)
        => /\ slots = snap[p].slots
           /\ reservations[loc[p].rid].table_id = loc[p].current.table_id
           /\ reservations[loc[p].rid].table_zone = loc[p].current.table_zone

\* An update_reservation of an active reservation that gave only a new time,
\* whose span overlaps the old one, and whose search chose the table held.
OverlappingMove(p) ==
    /\ Returned(p, "update")
    /\ Active(loc[p].current)
    /\ GivenFields(loc[p].updates) = {"time"}
    /\ loc[p].merged.time # loc[p].current.time
    /\ Span(loc[p].merged) \cap Span(loc[p].current) # {}
    /\ loc[p].table = loc[p].current.table_id

\* C6: such an update succeeds, keeps table_id, and leaves the reservation
\* owning exactly the keys of the new span on that table: the old keys outside
\* the new span released, all others kept or acquired.
C6_OverlapKeepsTable ==
    \A p \in Procs :
        OverlappingMove(p)
        => /\ loc[p].result = "ok"
           /\ reservations[loc[p].rid].table_id = loc[p].current.table_id
           /\ OwnedSlots(slots, loc[p].rid) =
                  {<<loc[p].current.table_id, k>> : k \in Span(loc[p].merged)}

\* C7: an update_reservation that ends with the no-availability or the conflict
\* error leaves the reservation items, the customer lookups and the slot items
\* as they were before the call.
C7_FailedUpdateUnchanged ==
    \A p \in Procs :
        ( /\ Returned(p, "update")
          /\ loc[p].result \in {"no_availability", "conflict"} )
        => Store = snap[p]

\* C7 witness: an update lost a slot after it had acquired another one.
C7_Witness ==
    \E p \in Procs :
        /\ Returned(p, "update")
        /\ loc[p].result = "conflict"
        /\ loc[p].created # << >>

\* C7 witness, the other error: an update found no table.
C7_WitnessNoTable ==
    \E p \in Procs :
        Returned(p, "update") /\ loc[p].result = "no_availability"

----------------------------------------------------------------------------
(* A failed create_reservation *)

CreateFailed(p) ==
    /\ pc[p] = "done" /\ loc[p].op = "create"
    /\ loc[p].result \in {"no_availability", "conflict"}

\* The step is one of the create_reservation call of p.
CreateStepOf(p) ==
    /\ loc[p].op = "create"
    /\ pc[p] \notin {"idle", "off", "done"}
    /\ <<pc[p], loc[p]>> # <<pc'[p], loc'[p]>>

\* The step leaves every item of the other reservations as it is.
OthersUntouched(rid) ==
    /\ \A id \in DOMAIN reservations \ {rid} :
           id \in DOMAIN reservations' /\ reservations'[id] = reservations[id]
    /\ \A k \in DOMAIN lookups \ LookupsOf(lookups, rid) :
           k \in DOMAIN lookups' /\ lookups'[k] = lookups[k]
    /\ \A k \in DOMAIN slots \ OwnedSlots(slots, rid) :
           k \in DOMAIN slots' /\ slots'[k] = slots[k]

\* C8 as stated: a create_reservation that ends with the no-availability or the
\* conflict error leaves no reservation item, no customer lookup and no slot
\* item of the id it attempted.
C8_FailedCreateLeavesNothing ==
    \A p \in Procs : CreateFailed(p) => NothingLeft(p)

\* C8 amended: a create_reservation that no call on the id it attempted
\* overlapped changes no item of another reservation, and if it ends with the
\* no-availability or the conflict error it leaves no reservation item, no
\* customer lookup and no slot item of that id.
C8_FailedCreateRolledBack ==
    /\ [](\A p \in Procs : (CreateFailed(p) /\ ~SharedId(p)) => NothingLeft(p))
    /\ [][\A p \in Procs :
            (CreateStepOf(p) /\ ~SharedId(p)) => OthersUntouched(loc[p].rid)]_vars

\* C8 witness: a create lost a slot after it had written its three kinds of items.
C8_Witness ==
    \E p \in Procs :
        /\ CreateFailed(p)
        /\ loc[p].result = "conflict"
        /\ ~SharedId(p)
        /\ Len(loc[p].created) >= 1

\* C8 witness, the other error: a create found no table.
C8_WitnessNoTable ==
    \E p \in Procs :
        CreateFailed(p) /\ loc[p].result = "no_availability" /\ loc[p].cands # << >>

----------------------------------------------------------------------------
(* A call that ends with the storage error *)

\* C9: when a create_reservation or update_reservation ends because a write
\* raised the storage error, what the attempt wrote is rolled back: the
\* reservation, if it is stored as active, owns every slot key of its span, no
\* slot item the attempt created remains, and no customer lookup is new.
C9_StorageErrorRolledBack ==
    \A p \in Procs :
        ( /\ pc[p] = "done" /\ loc[p].op \in {"create", "update"}
          /\ loc[p].result = "storage_error" )
        => /\ ( /\ loc[p].rid \in DOMAIN reservations
                /\ Active(reservations[loc[p].rid]) )
              => HoldsSpan(loc[p].rid, reservations[loc[p].rid])
           /\ \A i \in DOMAIN loc[p].created :
                  \/ loc[p].created[i] \notin DOMAIN slots
                  \/ loc[p].created[i] \in DOMAIN snap[p].slots
           /\ DOMAIN lookups \subseteq DOMAIN snap[p].lookups

----------------------------------------------------------------------------
(* cancelled as a status *)

----------------------------------------------------------------------------
(* Confirming and cancelling, one caller *)

\* An update_reservation of a pending reservation given only status confirmed,
\* whose date and time the calendar accepted when the call began.
ConfirmOnly(p) ==
    /\ Returned(p, "update")
    /\ loc[p].current.status = "pending"
    /\ loc[p].updates = [NoUpdates EXCEPT !.status = "confirmed"]
    /\ ValidateDateTime(loc[p].current.date, loc[p].current.time, loc[p].at) = "ok"

\* C11: such an update succeeds, the stored status is confirmed, table_id is
\* the same and the reservation owns the slot keys it owned before.
C11_ConfirmKeepsSlots ==
    \A p \in Procs :
        ConfirmOnly(p)
        => /\ loc[p].result = "ok"
           /\ reservations[loc[p].rid].status = "confirmed"
           /\ reservations[loc[p].rid].table_id = loc[p].current.table_id
           /\ OwnedSlots(slots, loc[p].rid) = OwnedSlots(snap[p].slots, loc[p].rid)

\* C12: cancel_reservation on a cancelled reservation returns success and
\* leaves the reservation items, the lookups and the slot items as they were:
\* the status is still cancelled, and the store after the second cancel is the
\* store after the first.
C12_CancelIdempotent ==
    \A p \in Procs :
        (Returned(p, "cancel") /\ loc[p].current.status = "cancelled")
        => /\ loc[p].result = "ok"
           /\ reservations[loc[p].rid].status = "cancelled"
           /\ Store = snap[p]

\* C12 witness: a second cancel returned, after the date of the reservation
\* had passed.
C12_Witness ==
    \E p \in Procs :
        /\ Returned(p, "cancel") /\ loc[p].current.status = "cancelled"
        /\ ValidateDateTime(loc[p].current.date, loc[p].current.time, loc[p].at) = "past"
        /\ lookups # << >>

----------------------------------------------------------------------------
(* create_reservation, one caller: when it succeeds and when it finds no table *)

\* The call of p is a create_reservation that has returned, for a date and time
\* the calendar accepted and a party size within bounds.
CreateReturned(p) ==
    /\ pc[p] = "done" /\ loc[p].op = "create"
    /\ ValidateDateTime(loc[p].merged.date, loc[p].merged.time, loc[p].at) = "ok"
    /\ loc[p].merged.num_people >= MinPeople
    /\ loc[p].merged.num_people <= MaxPeople

\* The capacity range of the table contains the party size.
Fits(table_id, num_people) ==
    /\ tables[table_id].capacity_min <= num_people
    /\ num_people <= tables[table_id].capacity_max

\* Every slot key of the span of r was free on the table when the call began.
WasFree(p, table_id, r) ==
    \A key \in Span(r) :
        \/ <<table_id, key>> \notin DOMAIN snap[p].slots
        \/ snap[p].slots[<<table_id, key>>].status \notin ACTIVE_STATUSES

\* The create_reservation of p succeeded as the claims describe.
CreateSucceeded(p) ==
    /\ loc[p].merged.status = "pending"
    /\ loc[p].table \in DOMAIN tables
    /\ tables[loc[p].table].capacity_max >= loc[p].merged.num_people
    /\ Committed(p)

\* C13: when some active table fits the party and had its span free, the
\* create_reservation succeeds.
C13_CreateSucceedsIfAnyTableFree ==
    \A p \in Procs :
        ( /\ CreateReturned(p)
          /\ \E t \in DOMAIN tables :
                 /\ tables[t].is_active
                 /\ Fits(t, loc[p].merged.num_people)
                 /\ WasFree(p, t, loc[p].merged) )
        => CreateSucceeded(p)

\* What does hold: when some candidate of the search (the fitting active tables of
\* the zone the preference names, if that zone has one, else all the fitting
\* active tables) had its span free, the create_reservation succeeds.
C13_CreateSucceedsIfCandidateFree ==
    \A p \in Procs :
        ( /\ CreateReturned(p)
          /\ \E t \in DOMAIN tables :
                 /\ tables[t].is_active
                 /\ Fits(t, loc[p].merged.num_people)
                 /\ \/ NormalizeZone(loc[p].merged.preferences) = tables[t].zone
                    \/ \A u \in DOMAIN tables :
                           (tables[u].is_active /\ Fits(u, loc[p].merged.num_people))
                           => tables[u].zone # NormalizeZone(loc[p].merged.preferences)
                 /\ WasFree(p, t, loc[p].merged) )
        => CreateSucceeded(p)

\* Its case: a create succeeded on a table that is not the first candidate,
\* the first one being taken.
C13_Witness ==
    \E p \in Procs :
        /\ CreateReturned(p) /\ loc[p].result = "ok"
        /\ loc[p].table # loc[p].cands[1]

\* C18: when every active table that fits the party had a key of the span held
\* by an active reservation, the create_reservation returns the no-availability
\* error and leaves the store as it was.
C18_NoTableNoWrite ==
    \A p \in Procs :
        ( /\ CreateReturned(p)
          /\ \A t \in DOMAIN tables :
                 (tables[t].is_active /\ Fits(t, loc[p].merged.num_people))
                 => ~WasFree(p, t, loc[p].merged) )
        => /\ loc[p].result = "no_availability"
           /\ Store = snap[p]

\* C18 witness: the second of two equal requests, when one table fits.
C18_Witness ==
    \E p \in Procs :
        /\ CreateReturned(p) /\ loc[p].result = "no_availability"
        /\ Len(loc[p].cands) = 1
        /\ ~WasFree(p, loc[p].cands[1], loc[p].merged)

----------------------------------------------------------------------------
(* Capacity and calendar of the stored reservations *)

\* C14: every stored reservation with a table assigned has a party size within
\* the capacity range of that table.
C14_CapacityContainment ==
    \A rid \in DOMAIN reservations :
        reservations[rid].table_id # ""
        => Fits(reservations[rid].table_id, reservations[rid].num_people)

\* Monday, the closed day.
ClosedDay(date) == date % 7 = 0

\* The step stores a new reservation or changes the date or time of one.
SetsDateTime(rid) ==
    /\ rid \in DOMAIN reservations'
    /\ \/ rid \notin DOMAIN reservations
       \/ reservations'[rid].date # reservations[rid].date
       \/ reservations'[rid].time # reservations[rid].time

\* C15: a step that stores a new reservation, or a new date or time of one,
\* belongs to a call whose validator accepted that date and time; and no stored
\* reservation is on a Monday.
C15_CalendarConformance ==
    /\ [][\A rid \in Ids :
             SetsDateTime(rid)
             => \E p \in Procs :
                    /\ pc[p] \notin {"off", "idle", "done"} /\ loc[p].rid = rid
                    /\ ValidateDateTime(reservations'[rid].date,
                                        reservations'[rid].time, loc[p].at) = "ok"]_vars
    /\ [](\A rid \in DOMAIN reservations : ~ClosedDay(reservations[rid].date))

\* C15 witness: an update that changed the time has succeeded.
C15_Witness ==
    \E p \in Procs :
        /\ Returned(p, "update") /\ loc[p].result = "ok"
        /\ loc[p].current.time # loc[p].merged.time
        /\ reservations[loc[p].rid].time = loc[p].merged.time

----------------------------------------------------------------------------
(* The calendar on its own: every weekday, every quarter of an hour *)

\* The Monday to Sunday of the first week, the Monday after it, a malformed date.
CalDates == {DayOf(0, weekday) : weekday \in 0..6} \cup {Mon, BadFormat}

\* The times of day a quarter of an hour apart, and a malformed time.
CalTimes == {15 * quarter : quarter \in 0..(DayMinutes \div 15 - 1)} \cup {BadFormat}

CalPeople == {5}

\* One call of _validate_date_time; result holds what it returned.
ValidateCall(p, date, time) ==
    /\ StartCall(p, 0)
    /\ Finish(p, [IdleLoc EXCEPT !.op = "validate", !.at = now,
                                 !.merged.date = date, !.merged.time = time],
              ValidateDateTime(date, time, now), "")
    /\ UNCHANGED issued

\* half_hour_times of seed_half_slots.py, on minutes of the day: strftime
\* keeps the time of day of current.
RECURSIVE HalfHourFrom(_, _)
HalfHourFrom(current, end) ==
    IF current <= end
    THEN <<current % DayMinutes>> \o HalfHourFrom(current + 30, end)
    ELSE << >>

HalfHourTimes(start, end) == HalfHourFrom(start, end)

\* valid_times_for_weekday of seed_half_slots.py
ValidTimesForWeekday(weekday) ==
    IF weekday = 0 THEN << >>
    ELSE IF weekday \in {1, 2, 3}
        THEN HalfHourTimes(13 * 60, 16 * 60) \o HalfHourTimes(20 * 60, 23 * 60 + 30)
    ELSE IF weekday \in {4, 5}
        THEN HalfHourTimes(13 * 60, 23 * 60 + 30) \o <<0>>
    ELSE HalfHourTimes(13 * 60, 17 * 60)

CalStep(p) ==
    \/ \E d \in CalDates, t \in CalTimes : ValidateCall(p, d, t)
    \/ \E d \in CalDates, t \in CalTimes, n \in CalPeople, ph \in CreatePhones :
            CreateStart(p, d, t, n, ph, "")
    \/ FindStep(p)
    \/ CreatePutReservation(p)
    \/ CreatePutLookup(p)
    \/ SaveOccupancyStep(p)
    \/ Return(p)

CalNext == (\E p \in Procs : CalStep(p)) \/ Tick

\* Calls of the caller that asks the calendar.
MaxCalCalls == 1

\* One caller asking the calendar, and booking, over the whole week.
CalendarSpec == InitAlone(MaxCalCalls) /\ [][CalNext]_vars


\* The call of p is a _validate_date_time that has returned, for a well-formed
\* date and time not before the clock.
Validated(p) ==
    /\ pc[p] = "done" /\ loc[p].op = "validate"
    /\ loc[p].merged.date # BadFormat /\ loc[p].merged.time # BadFormat
    /\ loc[p].merged.date * DayMinutes + loc[p].merged.time >= loc[p].at

\* The half hours from one time of day to another, both included.
HalfHours(from, to) ==
    {t \in 0..(DayMinutes - 1) : from <= t /\ t <= to /\ t % 30 = 0}

\* The opening times the schedule lists for a weekday (Monday is 0).
ListedTimes(weekday) ==
    IF weekday = 0 THEN {}
    ELSE IF weekday \in {1, 2, 3}
        THEN HalfHours(13 * 60, 16 * 60) \cup HalfHours(20 * 60, 23 * 60 + 30)
    ELSE IF weekday \in {4, 5} THEN HalfHours(13 * 60, 23 * 60 + 30) \cup {0}
    ELSE HalfHours(13 * 60, 17 * 60)

\* C16: for a well-formed date and time not in the past, _validate_date_time
\* accepts exactly the times valid_times_for_weekday lists for the weekday,
\* these are the listed opening times, and an accepted time is on the half hour.
C16_ValidatorMatchesSchedule ==
    \A p \in Procs :
        Validated(p)
        => LET weekday == loc[p].merged.date % 7
               time == loc[p].merged.time
           IN  /\ (loc[p].result = "ok")
                      <=> (time \in Range(ValidTimesForWeekday(weekday)))
               /\ Range(ValidTimesForWeekday(weekday)) = ListedTimes(weekday)
               /\ loc[p].result = "ok" => time % 60 \in {0, 30}

\* C16 witness: midnight of a Friday is accepted.
C16_Witness ==
    \E p \in Procs :
        /\ Validated(p) /\ loc[p].result = "ok"
        /\ loc[p].merged.date % 7 = 4 /\ loc[p].merged.time = 0

\* C17: a create_reservation for a Monday fails with the validation error that
\* says the restaurant is closed, and leaves the store as it was.
C17_MondayClosed ==
    \A p \in Procs :
        ( /\ pc[p] = "done" /\ loc[p].op = "create"
          /\ loc[p].merged.date # BadFormat /\ ClosedDay(loc[p].merged.date) )
        => /\ loc[p].result = "validation"
           /\ loc[p].reason = "closed_monday"
           /\ Store = snap[p]

----------------------------------------------------------------------------
(* available_times *)

\* The times of day available_times tries, in its order.
QueryTimes ==
    <<13 * 60, 13 * 60 + 30, 14 * 60, 14 * 60 + 30, 15 * 60, 15 * 60 + 30, 16 * 60,
      20 * 60, 20 * 60 + 30, 21 * 60, 21 * 60 + 30, 22 * 60, 22 * 60 + 30,
      23 * 60, 23 * 60 + 30>>

\* One pass of the loop without the call of the validator (a faulty variant,
\* not used by the model).
OfferUnvalidated(store, date, time, num_people, preferred_zone, clock) ==
    LET table == FindTable(tables, store, date, time, num_people,
                           preferred_zone, ReservationDuration(num_people), 0)
    IN  IF table = "" THEN << >>
        ELSE <<[time |-> time, table_id |-> table, zone |-> tables[table].zone]>>

\* One pass of the loop of available_times: the entry of this time, if any.
Offer(store, date, time, num_people, preferred_zone, clock) ==
    IF ValidateDateTime(date, time, clock) # "ok" THEN << >>
    ELSE LET table == FindTable(tables, store, date, time, num_people,
                                preferred_zone, ReservationDuration(num_people), 0)
         IN  IF table = "" THEN << >>
             ELSE <<[time |-> time, table_id |-> table, zone |-> tables[table].zone]>>

RECURSIVE Offers(_, _, _, _, _, _)
Offers(store, times, date, num_people, preferred_zone, clock) ==
    IF times = << >> THEN << >>
    ELSE Offer(store, date, Head(times), num_people, preferred_zone, clock)
             \o Offers(store, Tail(times), date, num_people, preferred_zone, clock)

\* The dates available_times is asked about: a Sunday too.
QueryDates == Dates \cup {DayOf(0, 6)}

\* available_times, asked once by a caller of its own while no other call
\* runs: it writes nothing, and its answer stays in loc[q].out.
AvailableTimes(q, date, num_people, preferred_zone) ==
    /\ pc[q] = "off" /\ loc[q].op = "none"
    /\ \A p \in Procs \ {q} : pc[p] = "idle"
    /\ loc' = [loc EXCEPT ![q] =
                  [IdleLoc EXCEPT !.op = "available", !.at = now,
                                  !.merged.date = date,
                                  !.merged.num_people = num_people,
                                  !.merged.preferences = preferred_zone,
                                  !.out = Offers(slots, QueryTimes, date, num_people,
                                                 preferred_zone, now),
                                  !.result = "ok"]]
    /\ snap' = [snap EXCEPT ![q] = Store]
    /\ StoreUnchanged
    /\ UNCHANGED manager
    /\ UNCHANGED <<now, issued, budget, pc, rivals>>

QueryNext ==
    \/ SoloStep(1)
    \/ \E d \in QueryDates, n \in People, z \in Preferences : AvailableTimes(2, d, n, z)
    \/ Tick

\* One caller of the repository, and one question to available_times between
\* two of its calls.
QuerySpec == InitAlone(MaxCalls) /\ [][QueryNext]_vars


\* available_times has answered for caller q.
Answered(q) == pc[q] = "off" /\ loc[q].op = "available"

\* The create_reservation of p has returned; it was given the arguments of the
\* question of q and the time of the entry, in the store and at the clock of
\* the question.
BookedAsAsked(p, q, entry) ==
    /\ pc[p] = "done" /\ loc[p].op = "create"
    /\ loc[p].merged.date = loc[q].merged.date
    /\ loc[p].merged.time = entry.time
    /\ loc[p].merged.num_people = loc[q].merged.num_people
    /\ loc[p].merged.preferences = loc[q].merged.preferences
    /\ loc[p].at = loc[q].at
    /\ snap[p] = snap[q]

\* C19: every entry of the answer of available_times has a time the validator
\* accepts, a table whose capacity range contains the party and whose span was
\* free, and a create_reservation with the same arguments in the same store
\* succeeds on that table.
C19_OffersAreBookable ==
    \A q \in Procs :
        Answered(q)
        => \A i \in DOMAIN loc[q].out :
               LET entry == loc[q].out[i]
                   asked == [loc[q].merged EXCEPT !.time = entry.time,
                                 !.duration_min = ReservationDuration(loc[q].merged.num_people)]
               IN  /\ ValidateDateTime(asked.date, entry.time, loc[q].at) = "ok"
                   /\ entry.table_id \in DOMAIN tables
                   /\ tables[entry.table_id].is_active
                   /\ Fits(entry.table_id, asked.num_people)
                   /\ entry.zone = tables[entry.table_id].zone
                   /\ WasFree(q, entry.table_id, asked)
                   /\ \A p \in Procs \ {q} :
                          BookedAsAsked(p, q, entry)
                          => /\ loc[p].result = "ok"
                             /\ loc[p].table = entry.table_id
                             /\ Committed(p)

\* C19 witness: with a table taken, an entry of the answer was booked.
C19_Witness ==
    \E q \in Procs :
        /\ Answered(q)
        /\ snap[q].slots # << >>
        /\ \E i \in DOMAIN loc[q].out, p \in Procs \ {q} :
               /\ BookedAsAsked(p, q, loc[q].out[i])
               /\ loc[p].table = loc[q].out[i].table_id
               /\ loc[p].table # loc[p].cands[1]

\* C20: every time on the half hour at which a create_reservation would
\* succeed in the store of the question is in the answer of available_times.
C20_OffersAreComplete ==
    \A q \in Procs :
        Answered(q)
        => \A time \in HalfHours(0, DayMinutes - 1) :
               ( /\ ValidateDateTime(loc[q].merged.date, time, loc[q].at) = "ok"
                 /\ loc[q].merged.num_people >= MinPeople
                 /\ loc[q].merged.num_people <= MaxPeople
                 /\ FindTable(tables, snap[q].slots, loc[q].merged.date, time,
                              loc[q].merged.num_people, loc[q].merged.preferences,
                              ReservationDuration(loc[q].merged.num_people), 0) # "" )
               => \E i \in DOMAIN loc[q].out : loc[q].out[i].time = time

----------------------------------------------------------------------------
(* The zone preference *)

\* The table the search gives this request in the store as it is.
Found(date, time, num_people, preferences) ==
    FindTable(tables, slots, date, time, num_people, preferences,
              ReservationDuration(num_people), 0)

\* C21: between calls, a request the search answers with a table when it has no
\* preference is answered with a table under any zone preference too.
C21_PreferenceIsAdvisory ==
    Quiescent
    => \A date \in Dates, time \in Times, num_people \in People,
          zone \in {"terraza", "salon"} :
           Found(date, time, num_people, "") # ""
           => Found(date, time, num_people, zone) # ""

----------------------------------------------------------------------------
(* Calls on one reservation id kept apart *)

\* No two calls in progress are on the same reservation id.
Serialized ==
    \A p, q \in InFlight : p # q => loc[p].rid # loc[q].rid

InitSerial ==
    /\ Init!1 /\ Init!2 /\ Init!3 /\ Init!4 /\ Init!5 /\ Init!6
    /\ budget = MaxSeqCalls
    /\ Init!8 /\ Init!9 /\ Init!10 /\ Init!11 /\ ManagerInit

\* The ids of the calls in progress.
BusyIds == {loc[q].rid : q \in InFlight}

\* What the two callers ask for: one evening, two party sizes.
SerialTimes == {20 * 60, 20 * 60 + 30}
SerialPeople == {5, 7}
SerialUpdates ==
    {u \in UpdateInputs :
        /\ u.date = NoInt /\ u.phone = NoStr /\ u.preferences \in {NoStr, ""}
        /\ u.time \in SerialTimes \cup {NoInt}
        /\ u.num_people \in SerialPeople \cup {NoInt}
        /\ u.status # "bogus"}

\* The steps of a caller that starts no call on an id another call is on.
SerialStep(p) ==
    \/ \E t \in SerialTimes, n \in SerialPeople, ph \in CreatePhones :
            CreateStart(p, Tue, t, n, ph, "")
    \/ \E rid \in Ids, u \in SerialUpdates : rid \notin BusyIds /\ UpdateStart(p, rid, u)
    \/ \E rid \in Ids : rid \notin BusyIds /\ CancelStart(p, rid)
    \/ FindStep(p)
    \/ CreatePutReservation(p)
    \/ CreatePutLookup(p)
    \/ SaveOccupancyStep(p)
    \/ UndoSlotStep(p)
    \/ CreateUndoReservation(p)
    \/ CreateUndoLookup(p)
    \/ ReleaseStep(p)
    \/ UpdatePutReservation(p)
    \/ UpdateDeleteLookup(p)
    \/ UpdatePutLookup(p)
    \/ Return(p)

SerialNext == \E p \in Procs : SerialStep(p)

\* Two callers that never work on one id at the same time.
SerialSpec == InitSerial /\ [][SerialNext]_vars

\* C22: between calls, every slot item is owned by a stored reservation that is
\* pending or confirmed, sits on the table of the slot and spans its key.
C22_NoOrphanedSlots ==
    Quiescent
    => \A key \in DOMAIN slots :
           LET rid == slots[key].reservation_id
           IN  /\ rid \in DOMAIN reservations
               /\ reservations[rid].status \in ACTIVE_STATUSES
               /\ reservations[rid].table_id = key[1]
               /\ key[2] \in Span(reservations[rid])

\* C22 witness: an update has moved a reservation to another table, and slot
\* items are stored.
C22_Witness ==
    /\ Quiescent
    /\ \E p \in Procs :
           /\ Returned(p, "update") /\ loc[p].result = "ok"
           /\ loc[p].current.status \in ACTIVE_STATUSES
           /\ loc[p].merged.table_id # loc[p].current.table_id
           /\ OwnedSlots(slots, loc[p].rid) # {}

----------------------------------------------------------------------------
(* The customer index *)

\* The reservation has one customer lookup, under its present key, with its
\* present status.
OneLookup(rid) ==
    LET r == reservations[rid]
        key == CustomerKey(r.phone, r.date, r.time, rid)
    IN  /\ LookupsOf(lookups, rid) = {key}
        /\ lookups[key] = r.status

\* C23: between calls, every stored reservation has exactly one customer
\* lookup, keyed by its present phone, date, time and id, with its status.
C23_OneLookupEach ==
    Quiescent => \A rid \in DOMAIN reservations : OneLookup(rid)

\* The ids on which two calls have run at the same time.
RacedIds == rivals[0]

\* C23 amended: between calls, every stored reservation on whose id no two
\* calls have overlapped has exactly one customer lookup, keyed by its present
\* phone, date, time and id, with its status.
C23_OneLookupEachSerialized ==
    Quiescent => \A rid \in DOMAIN reservations \ RacedIds : OneLookup(rid)

\* C23 witness: an update has moved the customer lookup of a reservation to a
\* new key.
C23_Witness ==
    /\ Quiescent
    /\ \E p \in Procs :
           /\ Returned(p, "update") /\ loc[p].result = "ok"
           /\ loc[p].rid \notin RacedIds
           /\ CustomerKey(loc[p].current.phone, loc[p].current.date,
                          loc[p].current.time, loc[p].rid) \notin DOMAIN lookups
           /\ OneLookup(loc[p].rid)

----------------------------------------------------------------------------
(* A reservation stays stored *)

\* A create_reservation has returned success for this id.
CreatedOk(rid) ==
    \E p \in Procs :
        /\ pc[p] = "done" /\ loc[p].op = "create"
        /\ loc[p].result = "ok" /\ loc[p].rid = rid

\* C24: once create_reservation has returned success for an id, its reservation
\* item is stored in every later state; and the write of a cancel_reservation
\* stores the record with status cancelled.
C24_NeverDeleted ==
    /\ \A rid \in 1..MaxLongCalls :
           [](CreatedOk(rid) => [](rid \in DOMAIN reservations))
    /\ [][\A p \in Procs :
             (pc[p] = "put_merged" /\ pc'[p] # "put_merged" /\ loc[p].op = "cancel")
             => /\ loc[p].rid \in DOMAIN reservations'
                /\ reservations'[loc[p].rid].status = "cancelled"]_vars

\* C24 witness: a cancel_reservation of an active reservation has returned and
\* the record is stored, cancelled.
C24_Witness ==
    \E p \in Procs :
        /\ Returned(p, "cancel") /\ loc[p].result = "ok"
        /\ loc[p].current.status \in ACTIVE_STATUSES
        /\ loc[p].rid \in DOMAIN reservations
        /\ reservations[loc[p].rid].status = "cancelled"

----------------------------------------------------------------------------
(* The slot conflict *)

\* C25: with one call at a time, no create_reservation and no
\* update_reservation returns the slot conflict error.
C25_NoConflictWhenSequential ==
    \A p \in Procs :
        (pc[p] = "done" /\ loc[p].op \in {"create", "update", "cancel"})
        => loc[p].result # "conflict"

----------------------------------------------------------------------------
(* _seed_tables *)

\* Two processes start on a store with no table.
InitSeed ==
    /\ tables = << >>
    /\ Init!2 /\ Init!3 /\ Init!4 /\ Init!5 /\ Init!6 /\ Init!7
    /\ Init!8 /\ Init!9 /\ Init!10 /\ Init!11 /\ ManagerInit

\* __init__ calls _seed_tables: the loop starts at the first default table.
SeedStart(p) ==
    /\ StartCall(p, 0)
    /\ Goto(p, [IdleLoc EXCEPT !.op = "seed", !.ci = 1], "seed_get")
    /\ UNCHANGED issued

\* The loop of _seed_tables moves to the next table, or ends.
SeedAdvance(p, l) ==
    IF l.ci < Len(DEFAULT_TABLES)
    THEN Goto(p, [l EXCEPT !.ci = l.ci + 1], "seed_get")
    ELSE Finish(p, [l EXCEPT !.ci = 0], "ok", "")

\* _seed_tables: the get_item of one table item.
SeedGet(p) ==
    /\ pc[p] = "seed_get"
    /\ IF GetItem(tables, DEFAULT_TABLES[loc[p].ci].table_id) # << >>
       THEN SeedAdvance(p, loc[p])
       ELSE Goto(p, loc[p], "seed_put")
    /\ UNCHANGED <<manager, tables, reservations, lookups, slots, now, issued, budget, snap, rivals>>

\* _seed_tables: the put_item of one table item, with no condition.
SeedPut(p) ==
    /\ pc[p] = "seed_put"
    /\ LET table == DEFAULT_TABLES[loc[p].ci]
       IN  tables' = PutItem(tables, table.table_id, table)
    /\ SeedAdvance(p, loc[p])
    /\ UNCHANGED <<manager, reservations, lookups, slots, now, issued, budget, snap, rivals>>

\* The tables whose active flag the staff may clear.
Closable == {"S1"}

\* The active flag of a stored table is cleared.
Deactivate(table_id) ==
    /\ table_id \in DOMAIN tables
    /\ tables[table_id].is_active
    /\ tables' = [tables EXCEPT ![table_id].is_active = FALSE]
    /\ UNCHANGED <<manager, reservations, lookups, slots, now, issued, budget, pc, loc, snap, rivals>>

SeedNext ==
    \/ \E p \in Procs : SeedStart(p) \/ SeedGet(p) \/ SeedPut(p) \/ Return(p)
    \/ \E table_id \in Closable : Deactivate(table_id)

\* Processes that start, at the same time or one after the other.
SeedSpec == InitSeed /\ [][SeedNext]_vars

\* C26: a step of _seed_tables puts a table item only where none is stored,
\* and leaves every stored table item as it is.
C26_SeedInsertsIfAbsent ==
    [][\A p \in Procs :
         (pc[p] = "seed_put" /\ pc'[p] # "seed_put")
         => /\ DEFAULT_TABLES[loc[p].ci].table_id \notin DOMAIN tables
            /\ \A id \in DOMAIN tables : tables'[id] = tables[id]]_vars

----------------------------------------------------------------------------
(* The table the search returns *)

\* The tables whose active flag is cleared while bookings are taken.
ClosableLater == {"S5"}

CatalogNext ==
    \/ SoloNext
    \/ \E table_id \in ClosableLater :
           (\A p \in Procs : pc[p] \in {"idle", "off"}) /\ Deactivate(table_id)

\* One caller, and tables taken out of service between its calls.
CatalogSpec == InitSeq /\ [][CatalogNext]_vars

\* The search of the call of p has returned a table.
Searched(p) == pc[p] = "done" /\ loc[p].table # ""

\* No key of the span of r on the table was held by another active reservation
\* when the call of p began.
WasFreeOfOthers(p, table_id, r) ==
    \A key \in Span(r) :
        \/ <<table_id, key>> \notin DOMAIN snap[p].slots
        \/ snap[p].slots[<<table_id, key>>].status \notin ACTIVE_STATUSES
        \/ snap[p].slots[<<table_id, key>>].reservation_id = loc[p].rid

\* The active tables that fit the party of r, of the preferred zone when it has
\* one that fits.
InZone(r) ==
    LET fitting == {t \in DOMAIN tables : tables[t].is_active /\ Fits(t, r.num_people)}
        preferred == {t \in fitting : tables[t].zone = NormalizeZone(r.preferences)}
    IN  IF preferred # {} THEN preferred ELSE fitting

Eligible(p) ==
    {t \in InZone(loc[p].merged) : WasFreeOfOthers(p, t, loc[p].merged)}

\* a comes before b by capacity_max, then priority, then table_id.
Precedes(a, b) ==
    \/ tables[a].capacity_max < tables[b].capacity_max
    \/ /\ tables[a].capacity_max = tables[b].capacity_max
       /\ tables[a].priority < tables[b].priority
    \/ /\ tables[a].capacity_max = tables[b].capacity_max
       /\ tables[a].priority = tables[b].priority
       /\ IdRank(a) < IdRank(b)

\* C27: the table the search returned is active and is the first, by
\* capacity_max, priority and table_id, of the eligible tables.
C27_FirstFit ==
    \A p \in Procs :
        Searched(p)
        => /\ tables[loc[p].table].is_active
           /\ loc[p].table \in Eligible(p)
           /\ \A t \in Eligible(p) \ {loc[p].table} : Precedes(loc[p].table, t)

\* C27 witness: with S5 out of service, a party of five was given T5.
C27_Witness ==
    \E p \in Procs :
        /\ Searched(p) /\ loc[p].op = "create" /\ loc[p].result = "ok"
        /\ \E t \in DOMAIN tables : ~tables[t].is_active /\ Fits(t, loc[p].merged.num_people)
        /\ Cardinality(Eligible(p)) > 0

----------------------------------------------------------------------------
(* No second table after a lost slot *)

\* The steps of create_reservation after its search, and the ones after a
\* failed slot put.
AfterSearch == {"put_reservation", "put_lookup", "occupy", "undo_slots",
                "undo_reservation", "undo_lookup"}
AfterFailedPut == {"undo_slots", "undo_reservation", "undo_lookup"}

\* C28: a create_reservation whose slot put has failed only undoes its writes
\* and returns the conflict error; once its search has returned it never
\* searches again, keeps the table, and puts slots on that table alone.
C28_NoRetryOnConflict ==
    /\ [][\A p \in Procs :
             ( /\ loc[p].op = "create" /\ pc[p] \in AfterSearch
               /\ <<pc'[p], loc'[p]>> # <<pc[p], loc[p]>> )
             => /\ pc'[p] \in AfterSearch \cup {"done"}
                /\ loc'[p].table = loc[p].table
                /\ \A key \in DOMAIN slots' \ DOMAIN slots : key[1] = loc[p].table
                /\ pc[p] \in AfterFailedPut
                   => /\ pc'[p] \in AfterFailedPut \cup {"done"}
                      /\ DOMAIN slots' \subseteq DOMAIN slots
                      /\ pc'[p] = "done" => loc'[p].result = "conflict"]_vars
    /\ [](\A p \in Procs :
             (pc[p] = "done" /\ loc[p].op = "create" /\ loc[p].result = "conflict")
             => \A i \in DOMAIN loc[p].created : loc[p].created[i][1] = loc[p].table)

\* C28 witness: a create_reservation has returned the conflict error while
\* another of its candidates has the whole span free.
C28_Witness ==
    \E p \in Procs :
        /\ pc[p] = "done" /\ loc[p].op = "create" /\ loc[p].result = "conflict"
        /\ \E i \in DOMAIN loc[p].cands :
               /\ loc[p].cands[i] # loc[p].table
               /\ \A k \in DOMAIN loc[p].keys :
                      ~SlotOccupied(slots, loc[p].cands[i], loc[p].keys[k], 0)

----------------------------------------------------------------------------
(* Two calls on one reservation id at the same time *)

\* The record create_reservation(Tue, 20:30, 5 people) stores, on table S5.
Booked ==
    [date |-> Tue, time |-> 20 * 60 + 30, num_people |-> 5, phone |-> "600111222",
     preferences |-> "", status |-> "pending", table_id |-> "S5",
     table_zone |-> "salon", duration_min |-> ReservationDuration(5)]

\* The store after that create_reservation, and two callers about to work on
\* its id.
InitRace ==
    /\ tables = SeededTables
    /\ reservations = PutItem(<< >>, 1, Booked)
    /\ lookups = PutItem(<< >>, CustomerKey(Booked.phone, Booked.date, Booked.time, 1),
                         Booked.status)
    /\ slots = [key \in {<<Booked.table_id, k>> : k \in Span(Booked)} |->
                    SlotItem(1, Booked)]
    /\ now = Instants[1]
    /\ issued = 1
    /\ budget = MaxCalls
    /\ Init!8 /\ Init!9 /\ Init!10 /\ Init!11 /\ ManagerInit

\* What the two callers ask for on the id.
RaceUpdates ==
    {[NoUpdates EXCEPT !.num_people = 7], [NoUpdates EXCEPT !.time = 20 * 60],
     [NoUpdates EXCEPT !.status = "confirmed"]}

RaceStep(p) ==
    \/ \E u \in RaceUpdates : UpdateStart(p, 1, u)
    \/ CancelStart(p, 1)
    \/ FindStep(p)
    \/ SaveOccupancyStep(p)
    \/ UndoSlotStep(p)
    \/ ReleaseStep(p)
    \/ UpdatePutReservation(p)
    \/ UpdateDeleteLookup(p)
    \/ UpdatePutLookup(p)
    \/ Return(p)

RaceNext == \E p \in Procs : RaceStep(p)

\* Two callers on the id of one stored reservation, not kept apart.
RaceSpec == InitRace /\ [][RaceNext]_vars

\* The slot items the id owns are those of its stored record: none when it is
\* cancelled, its span on its table when it is active.
SlotsMatchRecord(rid) ==
    LET r == reservations[rid]
    IN  OwnedSlots(slots, rid) =
            IF r.status \in ACTIVE_STATUSES
            THEN {<<r.table_id, key>> : key \in Span(r)}
            ELSE {}

\* The call of p was an update_reservation that moved the reservation.
Relocated(p) ==
    /\ loc[p].op = "update" /\ loc[p].result = "ok"
    /\ loc[p].table # "" /\ loc[p].table # loc[p].current.table_id

\* C29: when an update_reservation that moved a reservation and another update
\* or cancel on the same id overlapped and both have returned, the slot items
\* the id owns are those of the stored record.
C29_RaceKeepsSlotsConsistent ==
    \A p, q \in Procs :
        ( /\ p # q /\ pc[p] = "done" /\ pc[q] = "done"
          /\ Relocated(p)
          /\ loc[q].op \in {"update", "cancel"} /\ loc[q].rid = loc[p].rid
          /\ \E x \in rivals[p] : x[2] )
        => SlotsMatchRecord(loc[p].rid)

----------------------------------------------------------------------------
(* The status of a stored reservation *)

\* The changes of status the state machine of Reservation.status has.
StatusMachine ==
    {<<"pending", "confirmed">>, <<"pending", "cancelled">>,
     <<"confirmed", "cancelled">>}

\* C30: a stored reservation changes status only from pending to confirmed,
\* from pending to cancelled or from confirmed to cancelled; no step moves a
\* confirmed reservation back to pending.
C30_StatusTransitions ==
    [][\A rid \in DOMAIN reservations \cap DOMAIN reservations' :
          \/ reservations'[rid].status = reservations[rid].status
          \/ <<reservations[rid].status, reservations'[rid].status>> \in StatusMachine]_vars

----------------------------------------------------------------------------
(* An update outside the reallocation set *)

\* The call of p is an update_reservation that succeeded on an active
\* reservation and changed none of date, time, num_people, preferences, status.
OutsideReallocationSet(p) ==
    /\ pc[p] = "done" /\ loc[p].op = "update" /\ loc[p].result = "ok"
    /\ snap[p] # NoSnap
    /\ Active(loc[p].current)
    /\ \A field \in {"date", "time", "num_people", "preferences", "status"} :
           loc[p].merged[field] = loc[p].current[field]

\* C31: an update_reservation on an active reservation that changes none of
\* date, time, num_people, preferences and status leaves its table_id and the
\* slot items it owns as they were when the call began.
C31_NoReallocationKeepsSlots ==
    \A p \in Procs :
        OutsideReallocationSet(p) =>
            /\ reservations[loc[p].rid].table_id = loc[p].current.table_id
            /\ OwnedSlots(slots, loc[p].rid) = OwnedSlots(snap[p].slots, loc[p].rid)

----------------------------------------------------------------------------
(* Validation and not-found failures *)

\* The call of p ended with a validation or a not-found failure.
FailedEarly(p) ==
    pc[p] = "done" /\ loc[p].result \in {"validation", "not_found"}

\* C32: a create_reservation, update_reservation or cancel_reservation call
\* that ends with a validation failure or on an unknown id ends in its first
\* step and writes nothing: the reservations, the customer lookups and the
\* slot items are as they were, and no record exists for the unknown id.
C32_FailuresWriteNothing ==
    /\ [][\A p \in Procs :
            ( /\ pc[p] # "done" /\ pc'[p] = "done"
              /\ loc'[p].result \in {"validation", "not_found"} )
            => /\ pc[p] = "idle"
               /\ UNCHANGED <<reservations, lookups, slots>>]_vars
    /\ [](\A p \in Procs :
            (FailedEarly(p) /\ snap[p] # NoSnap) =>
                /\ Store = snap[p]
                /\ loc[p].result = "not_found" => loc[p].rid \notin DOMAIN reservations)

\* Its case: an update_reservation with an invalid status has failed on a stored
\* reservation that holds slot items.
C32_Witness ==
    \E p \in Procs :
        /\ FailedEarly(p) /\ loc[p].op = "update" /\ loc[p].reason = "status"
        /\ loc[p].rid \in DOMAIN reservations
        /\ OwnedSlots(slots, loc[p].rid) # {}

----------------------------------------------------------------------------
(* The store operations of one call *)

\* The order in which a call goes through its steps.
Phase(label) ==
    CASE label = "idle" -> 0
      [] label = "find" -> 1
      [] label = "put_reservation" -> 2
      [] label = "put_lookup" -> 3
      [] label = "occupy" -> 4
      [] label = "undo_slots" -> 5
      [] label = "undo_reservation" -> 6
      [] label = "undo_lookup" -> 7
      [] label = "release" -> 8
      [] label = "put_merged" -> 9
      [] label = "move_lookup" -> 10
      [] label = "save_lookup" -> 11
      [] OTHER -> 12

\* The store operations a call has left behind in the loop it is in.
Position(label, l) ==
    CASE label = "find" -> (l.ci - 1) * Len(l.keys) + l.ki
      [] label = "occupy" -> l.ki
      [] label \in {"undo_slots", "release"} -> l.ri
      [] OTHER -> 0

\* The length of the loop a call is in.
LoopLength(label, l) ==
    CASE label = "find" -> Len(l.cands) * Len(l.keys)
      [] label = "occupy" -> Len(l.keys)
      [] label = "undo_slots" -> Len(l.created)
      [] label = "release" -> Len(l.release)
      [] OTHER -> 0

\* The longest span of a reservation, in slot keys.
MaxSpan == SlotCount(ReservationDuration(MaxPeople))

Working(p) == pc[p] \notin {"idle", "off", "done"}

\* C33: every step of a create_reservation, update_reservation or
\* cancel_reservation call is one store operation that takes the call forward
\* (further in its loop or to a later phase, never back), and
\* every loop is bounded: one read per candidate table and span key, one put per
\* span key, one compensating delete per slot item put, one release per old
\* span key; this whatever the other caller does.
C33_BoundedOperations ==
    /\ [][\A p \in Procs :
            (Working(p) /\ <<pc'[p], loc'[p]>> # <<pc[p], loc[p]>>) =>
                \/ Phase(pc'[p]) > Phase(pc[p])
                \/ /\ Phase(pc'[p]) = Phase(pc[p])
                   /\ Position(pc'[p], loc'[p]) > Position(pc[p], loc[p])]_vars
    /\ [](\A p \in Procs :
            Working(p) =>
                /\ Position(pc[p], loc[p]) <= LoopLength(pc[p], loc[p])
                /\ Len(loc[p].cands) <= Cardinality(DOMAIN tables)
                /\ Len(loc[p].keys) <= MaxSpan
                /\ Len(loc[p].created) <= Len(loc[p].keys)
                /\ Len(loc[p].release) <= MaxSpan)

\* Its case: a create_reservation that lost slot keys to the other caller is in
\* its compensating deletes.
C33_Witness ==
    \E p \in Procs :
        /\ pc[p] = "undo_slots" /\ loc[p].op = "create"
        /\ \E q \in Procs \ {p} : Working(q)

----------------------------------------------------------------------------
(* _slot_keys *)

\* The longest duration _slot_keys is given.
MaxDuration == 150

\* The start times _slot_keys is given: on and off the half hour, in the
\* evening and up to midnight.
KeyTimes == {0, 20 * 60, 23 * 60 + 30, 23 * 60 + 50}

\* Both callers hold the same three arguments.
InitKeys ==
    /\ Init!1 /\ Init!2 /\ Init!3 /\ Init!4 /\ Init!5 /\ Init!6 /\ Init!7
    /\ pc = [p \in Procs |-> "idle"]
    /\ \E date \in Dates, time \in KeyTimes, duration \in 1..MaxDuration :
           loc = [p \in Procs |->
                     [IdleLoc EXCEPT !.op = "slot_keys", !.merged.date = date,
                                     !.merged.time = time,
                                     !.merged.duration_min = duration]]
    /\ Init!10 /\ Init!11 /\ ManagerInit

\* _slot_keys called with the arguments the caller holds.
SlotKeysCall(p) ==
    /\ pc[p] = "idle" /\ loc[p].op = "slot_keys"
    /\ LET l == loc[p]
       IN  Finish(p, [l EXCEPT !.at = now,
                               !.keys = SlotKeys(l.merged.date, l.merged.time,
                                                 l.merged.duration_min)],
                  "ok", "")
    /\ StoreUnchanged
    /\ UNCHANGED manager
    /\ UNCHANGED <<now, issued, budget, snap, rivals>>

KeysNext == (\E p \in Procs : SlotKeysCall(p)) \/ Tick

\* _slot_keys called twice with the same arguments, at any two instants.
KeysSpec == InitKeys /\ [][KeysNext]_vars

\* _slot_keys has returned to p.
KeysReturned(p) == pc[p] = "done" /\ loc[p].op = "slot_keys"

\* The least number of slots that cover a duration.
SlotsCovering(duration) ==
    CHOOSE n \in 0..duration :
        n * SLOT_MINUTES >= duration /\ (n - 1) * SLOT_MINUTES < duration

\* The order of the keys as strings "%Y-%m-%d#%H:%M".
KeyBefore(a, b) == a[1] < b[1] \/ (a[1] = b[1] /\ a[2] < b[2])

\* C34: for a positive duration _slot_keys returns ceil(duration / 30) keys, the
\* k-th (from 0) being the date and the time of day of start + 30 * k minutes,
\* on the next date past midnight, in increasing order without duplicates; two
\* calls with the same arguments return the same keys.
C34_SlotKeys ==
    \A p \in Procs :
        KeysReturned(p) =>
            LET l == loc[p]
                start == l.merged.date * DayMinutes + l.merged.time
            IN  /\ Len(l.keys) = SlotsCovering(l.merged.duration_min)
                /\ \A k \in 0..(Len(l.keys) - 1) :
                       /\ l.keys[k + 1][2] \in 0..(DayMinutes - 1)
                       /\ l.keys[k + 1][1] * DayMinutes + l.keys[k + 1][2]
                              = start + SLOT_MINUTES * k
                /\ \A i, j \in 1..Len(l.keys) :
                       i < j => KeyBefore(l.keys[i], l.keys[j])
                /\ \A q \in Procs : KeysReturned(q) => loc[q].keys = l.keys

\* Its case: both calls have returned, at different instants, for a duration
\* that is no multiple of 30 and a span that crosses midnight.
C34_Witness ==
    /\ \A p \in Procs : KeysReturned(p)
    /\ loc[1].at # loc[2].at
    /\ loc[1].merged.duration_min % SLOT_MINUTES # 0
    /\ loc[1].keys[Len(loc[1].keys)][1] = loc[1].merged.date + 1

----------------------------------------------------------------------------
(* Every party size on an empty floor *)

\* The party sizes the bounds check of create_reservation lets through.
FloorPeople == MinPeople..MaxPeople

FloorStep(p) ==
    \/ \E d \in Dates, t \in Times, n \in FloorPeople, pr \in Preferences,
          ph \in CreatePhones :
            CreateStart(p, d, t, n, ph, pr)
    \/ FindStep(p)
    \/ CreatePutReservation(p)
    \/ CreatePutLookup(p)
    \/ SaveOccupancyStep(p)
    \/ Return(p)

FloorNext == (\E p \in Procs : FloorStep(p)) \/ Tick

\* One create_reservation on the seeded catalog with no reservation stored.
FloorSpec == InitAlone(MaxCalCalls) /\ [][FloorNext]_vars

\* C35: with the seeded catalog and no reservation stored, a create_reservation
\* whose date and time pass the calendar and whose num_people is in 1..12
\* succeeds.
C35_EveryPartySizeSeated ==
    \A p \in Procs :
        ( /\ pc[p] = "done" /\ loc[p].op = "create"
          /\ Alone(p) /\ snap[p].reservations = << >> /\ snap[p].slots = << >>
          /\ tables = SeededTables
          /\ loc[p].result # "validation" )
        => loc[p].result = "ok"

----------------------------------------------------------------------------
(* RestaurantAgentManager: the sessions of the WhatsApp users *)

\* The settings the manager reads.
settings ==
    [max_turns_per_session |-> 2, session_idle_reset_minutes |-> 1,
     recent_context_turns |-> 1]

\* Calls of the manager started in one run of the worker threads.
MaxMgrCalls == 3
\* The last instant of the clock of the manager.
MaxClock == 2

\* The forms in which the number of one user arrives, as the pieces that
\* str.replace looks for.
RawPhones == {<<"whatsapp:", "+", "34600111222">>, <<"+", "34", " ", "600111222">>}

RECURSIVE Concat(_)
Concat(pieces) ==
    IF pieces = << >> THEN << >> ELSE <<Head(pieces)>> \o Concat(Tail(pieces))

\* _sanitize_phone_number: "whatsapp:", "+" and " " are removed; the digits
\* that remain are one string whatever the pieces were.
SanitizePhoneNumber(phone) ==
    LET kept(piece) == piece \notin {"whatsapp:", "+", " "}
        digits == SelectSeq(phone, kept)
    IN  IF digits = <<"34", "600111222">> THEN <<"34600111222">> ELSE Concat(digits)

RepositoryUnchanged ==
    UNCHANGED <<tables, reservations, lookups, slots, issued, snap, rivals>>

\* dict.get(key, default)
Get(dict, key, default) == IF key \in DOMAIN dict THEN dict[key] ELSE default

\* dict.pop(key, None)
Pop(dict, key) == [k \in DOMAIN dict \ {key} |-> dict[k]]

\* dict[key] = value
Set(dict, key, value) ==
    [k \in DOMAIN dict \cup {key} |-> IF k = key THEN value ELSE dict[k]]

\* The local variables of a call of the manager.
ManagerLoc(op, clean_phone) ==
    [op |-> op, rid |-> 0, clean_phone |-> clean_phone, now_spain |-> now,
     reason |-> "", turns |-> 0, result |-> "none"]

\* _should_rotate_session
ShouldRotateSession(clean_phone, now_spain) ==
    IF clean_phone \notin agents THEN ""
    ELSE IF /\ clean_phone \in DOMAIN last_seen_at
            /\ now_spain - last_seen_at[clean_phone] > settings.session_idle_reset_minutes
         THEN "inactividad"
    ELSE IF Get(turn_counts, clean_phone, 0) >= settings.max_turns_per_session
         THEN "turnos"
    ELSE ""

\* process_message, up to the call of _should_rotate_session.
ProcessMessage(p, phone_number) ==
    /\ pc[p] = "idle"
    /\ budget > 0
    /\ budget' = budget - 1
    /\ pc' = [pc EXCEPT ![p] = "should_rotate"]
    /\ loc' = [loc EXCEPT ![p] =
                  ManagerLoc("process_message", SanitizePhoneNumber(phone_number))]
    /\ UNCHANGED <<manager, now>>
    /\ RepositoryUnchanged

\* process_message: _should_rotate_session.
ShouldRotate(p) ==
    /\ pc[p] = "should_rotate"
    /\ LET reason == ShouldRotateSession(loc[p].clean_phone, loc[p].now_spain)
       IN  Goto(p, [loc[p] EXCEPT !.reason = reason],
                IF reason # "" THEN "rotate" ELSE "get_agent")
    /\ UNCHANGED <<manager, now, budget>>
    /\ RepositoryUnchanged

\* process_message: _rotate_session.
RotateSession(p) ==
    /\ pc[p] = "rotate"
    /\ LET clean_phone == loc[p].clean_phone
       IN  /\ agents' = agents \ {clean_phone}
           /\ turn_counts' = Set(turn_counts, clean_phone, 0)
           /\ tags_issued' = tags_issued + 1
           /\ conversation_tags' = Set(conversation_tags, clean_phone, tags_issued + 1)
           /\ recent_context' = IF loc[p].reason = "inactividad"
                                THEN Pop(recent_context, clean_phone)
                                ELSE recent_context
    /\ Goto(p, loc[p], "get_agent")
    /\ UNCHANGED <<last_seen_at, now, budget>>
    /\ RepositoryUnchanged

\* process_message: _get_or_create_agent; created tells whether the session
\* manager and the agent could be built.
GetOrCreateAgent(p, created) ==
    /\ pc[p] = "get_agent"
    /\ LET clean_phone == loc[p].clean_phone
           tagged == clean_phone \in DOMAIN conversation_tags
       IN  IF clean_phone \in agents
           THEN /\ created
                /\ Goto(p, loc[p], "build_message")
                /\ UNCHANGED manager
           ELSE /\ conversation_tags' =
                       IF tagged THEN conversation_tags
                       ELSE Set(conversation_tags, clean_phone, tags_issued + 1)
                /\ tags_issued' = IF tagged THEN tags_issued ELSE tags_issued + 1
                /\ IF created
                   THEN /\ agents' = agents \cup {clean_phone}
                        /\ turn_counts' =
                               Set(turn_counts, clean_phone, Get(turn_counts, clean_phone, 0))
                        /\ last_seen_at' = Set(last_seen_at, clean_phone, now)
                        /\ Goto(p, loc[p], "build_message")
                   ELSE /\ UNCHANGED <<agents, turn_counts, last_seen_at>>
                        /\ Finish(p, loc[p], "error", "")
                /\ UNCHANGED recent_context
    /\ UNCHANGED <<now, budget>>
    /\ RepositoryUnchanged

\* _get_recent_context_buffer: the deque of the user, made when it is missing.
RecentContextBuffer(clean_phone) ==
    IF clean_phone \in DOMAIN recent_context THEN recent_context
    ELSE Set(recent_context, clean_phone, << >>)

\* process_message: _build_message_with_metadata.
BuildMessage(p) ==
    /\ pc[p] = "build_message"
    /\ recent_context' = RecentContextBuffer(loc[p].clean_phone)
    /\ Goto(p, loc[p], "agent")
    /\ UNCHANGED <<agents, turn_counts, last_seen_at, conversation_tags, tags_issued,
                   now, budget>>
    /\ RepositoryUnchanged

\* process_message: the call of the agent; answered tells whether it returned
\* a text.
AgentCall(p, answered) ==
    /\ pc[p] = "agent"
    /\ IF answered THEN Goto(p, loc[p], "append_context")
       ELSE Finish(p, loc[p], "error", "")
    /\ UNCHANGED <<manager, now, budget>>
    /\ RepositoryUnchanged

\* deque(maxlen).append
DequeAppend(buffer, entry) ==
    LET longer == Append(buffer, entry)
    IN  IF Len(longer) > settings.recent_context_turns * 2 THEN Tail(longer) ELSE longer

\* process_message: the two appends to the recent context.
AppendContext(p) ==
    /\ pc[p] = "append_context"
    /\ LET clean_phone == loc[p].clean_phone
           buffers == RecentContextBuffer(clean_phone)
       IN  recent_context' =
               Set(buffers, clean_phone,
                   DequeAppend(DequeAppend(buffers[clean_phone], "Usuario"), "Asistente"))
    /\ Goto(p, loc[p], "read_turns")
    /\ UNCHANGED <<agents, turn_counts, last_seen_at, conversation_tags, tags_issued,
                   now, budget>>
    /\ RepositoryUnchanged

\* process_message: the read of self.turn_counts.get(clean_phone, 0).
ReadTurns(p) ==
    /\ pc[p] = "read_turns"
    /\ Goto(p, [loc[p] EXCEPT !.turns = Get(turn_counts, loc[p].clean_phone, 0)],
            "write_turns")
    /\ UNCHANGED <<manager, now, budget>>
    /\ RepositoryUnchanged

\* process_message: the store of the count read, plus one.
WriteTurns(p) ==
    /\ pc[p] = "write_turns"
    /\ turn_counts' = Set(turn_counts, loc[p].clean_phone, loc[p].turns + 1)
    /\ Goto(p, loc[p], "write_seen")
    /\ UNCHANGED <<agents, last_seen_at, conversation_tags, recent_context, tags_issued,
                   now, budget>>
    /\ RepositoryUnchanged

\* process_message: self.last_seen_at[clean_phone] = now_spain, and the return.
WriteLastSeen(p) ==
    /\ pc[p] = "write_seen"
    /\ last_seen_at' = Set(last_seen_at, loc[p].clean_phone, loc[p].now_spain)
    /\ Finish(p, loc[p], "ok", "")
    /\ UNCHANGED <<agents, turn_counts, conversation_tags, recent_context, tags_issued,
                   now, budget>>
    /\ RepositoryUnchanged

\* clear_user_session
ClearUserSession(p, phone_number) ==
    /\ pc[p] = "idle"
    /\ budget > 0
    /\ budget' = budget - 1
    /\ LET clean_phone == SanitizePhoneNumber(phone_number)
           l == ManagerLoc("clear_user_session", clean_phone)
       IN  IF clean_phone \in agents
           THEN /\ agents' = agents \ {clean_phone}
                /\ turn_counts' = Pop(turn_counts, clean_phone)
                /\ last_seen_at' = Pop(last_seen_at, clean_phone)
                /\ conversation_tags' = Pop(conversation_tags, clean_phone)
                /\ recent_context' = Pop(recent_context, clean_phone)
                /\ UNCHANGED tags_issued
                /\ Finish(p, l, "true", "")
           ELSE /\ UNCHANGED manager
                /\ Finish(p, l, "false", "")
    /\ UNCHANGED now
    /\ RepositoryUnchanged

\* A minute passes.
ManagerTick ==
    /\ now < MaxClock
    /\ now' = now + 1
    /\ UNCHANGED <<manager, budget, pc, loc>>
    /\ RepositoryUnchanged

ManagerStep(p) ==
    \/ \E phone_number \in RawPhones : ProcessMessage(p, phone_number)
    \/ ShouldRotate(p)
    \/ RotateSession(p)
    \/ \E created \in BOOLEAN : GetOrCreateAgent(p, created)
    \/ BuildMessage(p)
    \/ \E answered \in BOOLEAN : AgentCall(p, answered)
    \/ AppendContext(p)
    \/ ReadTurns(p)
    \/ WriteTurns(p)
    \/ WriteLastSeen(p)
    \/ \E phone_number \in RawPhones : ClearUserSession(p, phone_number)
    \/ Return(p)

ManagerNext == (\E p \in Procs : ManagerStep(p)) \/ ManagerTick

InitManager ==
    /\ Init!1 /\ Init!2 /\ Init!3 /\ Init!4 /\ Init!5 /\ Init!6
    /\ budget = MaxMgrCalls
    /\ Init!8 /\ Init!9 /\ Init!10 /\ Init!11 /\ ManagerInit

\* Two worker threads of the webhook on one manager.
ManagerSpec == InitManager /\ [][ManagerNext]_vars

\* C36: turn_counts[phone] never exceeds max_turns_per_session, also when two
\* messages of one phone are processed at the same time: a process_message that
\* finds the count at the limit rotates the session, which sets it to 0, before
\* it counts its own turn.
C36_TurnsBounded ==
    \A clean_phone \in DOMAIN turn_counts :
        turn_counts[clean_phone] <= settings.max_turns_per_session

\* C37: when clear_user_session(phone) returns, True or False, the sanitized
\* phone is a key of none of agents, turn_counts, last_seen_at,
\* conversation_tags and recent_context.
C37_ClearLeavesNothing ==
    [][\A p \in Procs :
         (pc[p] = "idle" /\ pc'[p] = "done" /\ loc'[p].op = "clear_user_session")
         => LET clean_phone == loc'[p].clean_phone
            IN  /\ clean_phone \notin agents'
                /\ clean_phone \notin DOMAIN turn_counts'
                /\ clean_phone \notin DOMAIN last_seen_at'
                /\ clean_phone \notin DOMAIN conversation_tags'
                /\ clean_phone \notin DOMAIN recent_context']_vars

----------------------------------------------------------------------------
(* split_message_chunks *)

\* The longest text and the largest max_length split_message_chunks is given.
MaxTextLen == 5
MaxChunkLen == 3

\* A text is a sequence of characters: two letters, the space, the newline.
Chars == {"a", "b", " ", "\n"}
Texts == UNION {[1..n -> Chars] : n \in 0..MaxTextLen}

IsSpace(char) == char \in {" ", "\n"}

RECURSIVE LStrip(_)
LStrip(text) ==
    IF text # << >> /\ IsSpace(Head(text)) THEN LStrip(Tail(text)) ELSE text

RECURSIVE RStrip(_)
RStrip(text) ==
    IF text # << >> /\ IsSpace(text[Len(text)])
    THEN RStrip(SubSeq(text, 1, Len(text) - 1))
    ELSE text

\* str.strip()
Strip(text) == RStrip(LStrip(text))

\* str.split("\n\n"): rest is what is left to scan, part what was scanned since
\* the last separator.
RECURSIVE SplitOnBlankLine(_, _)
SplitOnBlankLine(rest, part) ==
    IF rest = << >> THEN <<part>>
    ELSE IF Len(rest) >= 2 /\ rest[1] = "\n" /\ rest[2] = "\n"
         THEN <<part>> \o SplitOnBlankLine(SubSeq(rest, 3, Len(rest)), << >>)
    ELSE SplitOnBlankLine(Tail(rest), Append(part, Head(rest)))

\* str.split(): the words between runs of whitespace.
RECURSIVE SplitWords(_, _)
SplitWords(rest, word) ==
    LET ended == IF word = << >> THEN << >> ELSE <<word>>
    IN  IF rest = << >> THEN ended
        ELSE IF IsSpace(Head(rest)) THEN ended \o SplitWords(Tail(rest), << >>)
        ELSE SplitWords(Tail(rest), Append(word, Head(rest)))

Words(text) == SplitWords(text, << >>)

\* [p.strip() for p in cleaned.split("\n\n") if p.strip()]
Paragraphs(cleaned) ==
    LET parts == SplitOnBlankLine(cleaned, << >>)
        stripped == [i \in 1..Len(parts) |-> Strip(parts[i])]
        nonempty(part) == part # << >>
    IN  SelectSeq(stripped, nonempty)

\* The loop over the words of a paragraph longer than max_length: the chunks
\* so far and the piece being filled.
RECURSIVE PackWords(_, _, _, _)
PackWords(words, chunks, piece, max_length) ==
    IF words = << >> THEN <<chunks, piece>>
    ELSE LET word == Head(words)
             candidate_word == IF piece = << >> THEN word ELSE piece \o <<" ">> \o word
         IN  IF Len(candidate_word) <= max_length
             THEN PackWords(Tail(words), chunks, candidate_word, max_length)
             ELSE PackWords(Tail(words),
                            IF piece # << >> THEN Append(chunks, piece) ELSE chunks,
                            word, max_length)

\* The loop over the paragraphs: the chunks so far and the chunk being filled.
RECURSIVE PackParagraphs(_, _, _, _)
PackParagraphs(paragraphs, chunks, current, max_length) ==
    IF paragraphs = << >>
    THEN IF current # << >> THEN Append(chunks, current) ELSE chunks
    ELSE LET paragraph == Head(paragraphs)
             candidate == IF current = << >> THEN paragraph
                          ELSE current \o <<"\n", "\n">> \o paragraph
             flushed == IF current # << >> THEN Append(chunks, current) ELSE chunks
         IN  IF Len(candidate) <= max_length
             THEN PackParagraphs(Tail(paragraphs), chunks, candidate, max_length)
             ELSE IF Len(paragraph) <= max_length
             THEN PackParagraphs(Tail(paragraphs), flushed, paragraph, max_length)
             ELSE LET packed == PackWords(Words(paragraph), flushed, << >>, max_length)
                  IN  PackParagraphs(Tail(paragraphs), packed[1], packed[2], max_length)

SplitMessageChunks(text, max_length) ==
    LET cleaned == Strip(text)
    IN  IF cleaned = << >> THEN << >>
        ELSE IF Len(cleaned) <= max_length THEN <<cleaned>>
        ELSE PackParagraphs(Paragraphs(cleaned), << >>, << >>, max_length)

\* The caller holds a text and a max_length.
InitChunks ==
    /\ Init!1 /\ Init!2 /\ Init!3 /\ Init!4 /\ Init!5 /\ Init!6 /\ Init!7
    /\ pc = [p \in Procs |-> IF p = 1 THEN "idle" ELSE "off"]
    /\ \E text \in Texts, max_length \in 1..MaxChunkLen :
           loc = [p \in Procs |->
                     [op |-> "split_message_chunks", rid |-> 0, text |-> text,
                      max_length |-> max_length, chunks |-> << >>, result |-> "none"]]
    /\ Init!10 /\ Init!11 /\ ManagerInit

\* split_message_chunks called with what the caller holds.
SplitCall(p) ==
    /\ pc[p] = "idle" /\ loc[p].op = "split_message_chunks"
    /\ pc' = [pc EXCEPT ![p] = "done"]
    /\ loc' = [loc EXCEPT ![p].chunks = SplitMessageChunks(loc[p].text, loc[p].max_length),
                          ![p].result = "ok"]
    /\ UNCHANGED <<manager, now, budget>>
    /\ RepositoryUnchanged

ChunksNext == \E p \in Procs : SplitCall(p)

ChunksSpec == InitChunks /\ [][ChunksNext]_vars

\* The words of the chunks, one chunk after the other.
RECURSIVE WordsOfAll(_)
WordsOfAll(chunks) ==
    IF chunks = << >> THEN << >> ELSE Words(Head(chunks)) \o WordsOfAll(Tail(chunks))

\* C38: split_message_chunks returns only chunks that are not empty and not
\* longer than max_length, and the words of the chunks in order are the words
\* of the text in order.
C38_ChunksWithinLength ==
    \A p \in Procs :
        (pc[p] = "done" /\ loc[p].op = "split_message_chunks") =>
            /\ \A i \in 1..Len(loc[p].chunks) :
                   /\ loc[p].chunks[i] # << >>
                   /\ Len(loc[p].chunks[i]) <= loc[p].max_length
            /\ WordsOfAll(loc[p].chunks) = Words(loc[p].text)

====
